---- MODULE Spec2Model ----
(***************************************************************************)
(* A model of XiaoXue-Video-Tools: the batch rename engine                 *)
(* (src/src/batch_renamer.py), the media quality scanner (src/src/qc.py),  *)
(* the notification settings (src/src/notify_config.py), the encode        *)
(* parameters (src/src/encode_params.py), the executors                    *)
(* (src/src/executors/file_executor.py, video_executor.py) with the        *)
(* functions of src/src/core.py, image_converter.py and compat_encoder.py  *)
(* they call, and the folder creator (src/src/folder_creator.py).          *)
(*                                                                         *)
(* Strings stand for themselves.  A file name is the pair (stem, ext) that *)
(* os.path.splitext yields; a directory name is the sequence of its        *)
(* tokens, "_" and every character the code treats specially being a token *)
(* of its own.  The media-type labels of the source are written "img" and  *)
(* "vid".                                                                  *)
(***************************************************************************)
EXTENDS Integers, Sequences, FiniteSets, TLC

VARIABLES
    \* ---- batch_renamer.py ----
    fs,             \* the files under the input root: path -> content
    fs0,            \* fs as it was when batch_rename was called
    dirs,           \* the directories that exist under the input root
    config,         \* the RenameConfig of the call
    input_is_dir,   \* os.path.isdir(input_path)
    pc,             \* where batch_rename stands
    files,          \* get_files_sorted_by_size's result
    queue,          \* the (group, index, file) items not processed yet
    success_count,
    fail_count,
    errors,
    ops,            \* one record per file processed so far
    \* ---- qc.py ----
    qpc,            \* where the caller of qc.py stands
    qc_file,        \* the file on disk that info.path names
    probe_out,      \* what the prober gave for a file that is probed on its own
    media_info,     \* the MediaInfo being worked on
    probed,         \* info as probe_media returned it
    before,         \* info as it was before the latest check_compatibility
    rule_args,      \* the rule parameters of the call
    evals,          \* how often check_compatibility was applied to info
    scan_is_dir,    \* whether the directory given to scan_directory is one
    walked,         \* the files os.walk has yielded, each with its probe output
    results,        \* scan_directory's results
    report,         \* what generate_report returned
    report_dir,     \* whether the directory of output_path exists
    report_file,    \* what the file at output_path holds
    \* ---- notify_config.py ----
    npc,            \* where the caller of notify_config.py stands
    notify_config,  \* the module's _notify_config
    notify_config_loaded,   \* the module's _notify_config_loaded
    returned,       \* the dict the latest get_notify_config handed out
    notify_op,      \* the latest call, its argument, and _notify_config before it
    calls,          \* the sender calls of the latest send_auto_notification
    \* ---- encode_params.py ----
    epc,            \* where the caller of encode_params.py stands
    encode_args,    \* the argparse namespace given to resolve_encoder_params
    params,         \* the EncodeParams instance
    encode_mode,    \* what get_encode_mode returned
    \* ---- the executors and the modules they drive ----
    remux,          \* a call of execute_remux: its arguments, locals and the files
    convert,        \* a call of execute_image_convert, batch_convert_images within
    encrun,         \* a call of execute_encode or run_2pass_encode
    compat,         \* a call of run_compat_encode
    folders         \* a call of batch_create_folders

renameVars == <<fs, fs0, dirs, config, input_is_dir, pc, files, queue,
                success_count, fail_count, errors, ops>>

qcVars == <<qpc, qc_file, probe_out, media_info, probed, before, rule_args, evals,
            scan_is_dir, walked, results,
            report, report_dir, report_file>>

notifyVars == <<npc, notify_config, notify_config_loaded, returned, notify_op, calls>>

encodeVars == <<epc, encode_args, params, encode_mode>>

execVars == <<remux, convert, encrun, compat, folders>>

vars == <<renameVars, qcVars, notifyVars, encodeVars, execVars>>

\* everything but one of the calls of execVars
exceptRemux == <<renameVars, qcVars, notifyVars, encodeVars, convert, encrun, compat, folders>>
exceptConvert == <<renameVars, qcVars, notifyVars, encodeVars, remux, encrun, compat, folders>>
exceptEncrun == <<renameVars, qcVars, notifyVars, encodeVars, remux, convert, compat, folders>>
exceptCompat == <<renameVars, qcVars, notifyVars, encodeVars, remux, convert, encrun, folders>>
exceptFolders == <<renameVars, qcVars, notifyVars, encodeVars, remux, convert, encrun, compat>>

-----------------------------------------------------------------------------
(* Bounds of the model *)

MaxFiles == 3
MaxSize == 2
\* the longest input list of an executor
MaxInputs == 2
\* the most lines of a TXT file of folder names
MaxLines == 2

-----------------------------------------------------------------------------
(* Generic helpers *)

Range(s) == {s[i] : i \in 1..Len(s)}

IsPrefix(s, t) == Len(s) <= Len(t) /\ SubSeq(t, 1, Len(s)) = s

RECURSIVE Concat(_)
Concat(ss) == IF ss = <<>> THEN <<>> ELSE Head(ss) \o Concat(Tail(ss))

\* every ordering of a finite set
Orderings(S) ==
    {s \in [1..Cardinality(S) -> S] : \A i, j \in 1..Cardinality(S) : s[i] = s[j] => i = j}

-----------------------------------------------------------------------------
(* batch_renamer.py: names and paths *)

ImageLabel == "img"
VideoLabel == "vid"

\* str.lower() on the extensions and list items that occur
Lower(s) ==
    CASE s = ".PNG" -> ".png"
      [] s = ".MP4" -> ".mp4"
      [] s = ".JPG" -> ".jpg"
      [] s = "PNG"  -> "png"
      [] s = "MP4"  -> "mp4"
      [] s = "JPG"  -> "jpg"
      [] OTHER      -> s

\* str.lstrip(".") / the removal of one leading dot
StripDot(s) ==
    CASE s = ".png" -> "png"
      [] s = ".mp4" -> "mp4"
      [] s = ".jpg" -> "jpg"
      [] s = ".txt" -> "txt"
      [] OTHER      -> s

RECURSIVE normalize_extensions(_)
normalize_extensions(extensions) ==
    IF extensions = <<>> THEN <<>>
    ELSE LET ext == StripDot(Lower(Head(extensions)))
             rest == normalize_extensions(Tail(extensions))
         IN  IF ext # "" THEN <<ext>> \o rest ELSE rest

\* directory names, as token sequences
SubDir == <<"ep", "_", "x">>
RenameOutput == <<"rename", "_", "output">>

Root == <<>>

MkPath(dir, stem, ext) == [dir |-> dir, stem |-> stem, ext |-> ext]

Exists(f, p) == p \in DOMAIN f

get_file_size(f, p) == IF p \in DOMAIN f THEN f[p].size ELSE 0

-----------------------------------------------------------------------------
(* batch_renamer.py: collect, filter, sort *)

\* the test both get_files_sorted_by_size and determine_media_type apply:
\* os.path.splitext(name)[1].lower().lstrip(".") in set(normalize_extensions(..))
ExtIn(p, extensions) == StripDot(Lower(p.ext)) \in Range(normalize_extensions(extensions))

\* a listing that goes into the subdirectories in flat mode too
ListingsOfAllDirs(f, extensions, recursive) ==
    LET matching == {p \in DOMAIN f : ExtIn(p, extensions)}
        n == Cardinality(matching)
    IN  {s \in Orderings(matching) :
            \A i, j \in 1..n :
                /\ (i < j /\ s[i].dir = s[j].dir) =>
                       \A k \in i..j : s[k].dir = s[i].dir
                /\ (s[i].dir # s[j].dir /\ IsPrefix(s[i].dir, s[j].dir)) => i < j}

\* the orders in which os.walk (recursive) or os.listdir (flat) may hand the
\* matching files over: a directory's files come together, a directory comes
\* before the directories below it, and nothing else is fixed
Listings(f, extensions, recursive) ==
    LET matching == {p \in DOMAIN f :
                        /\ ExtIn(p, extensions)
                        /\ recursive \/ p.dir = Root}
        n == Cardinality(matching)
    IN  {s \in Orderings(matching) :
            \A i, j \in 1..n :
                /\ (i < j /\ s[i].dir = s[j].dir) =>
                       \A k \in i..j : s[k].dir = s[i].dir
                /\ (s[i].dir # s[j].dir /\ IsPrefix(s[i].dir, s[j].dir)) => i < j}

\* a sort that leaves the listing as it came
InsertAtEnd(sorted, p, f) == Append(sorted, p)

\* list.sort(key=get_file_size): a stable sort, one insertion at a time
InsertBySize(sorted, p, f) ==
    LET k == Cardinality({i \in 1..Len(sorted) :
                             get_file_size(f, sorted[i]) <= get_file_size(f, p)})
    IN  SubSeq(sorted, 1, k) \o <<p>> \o SubSeq(sorted, k + 1, Len(sorted))

RECURSIVE SortFrom(_, _, _)
SortFrom(sorted, listing, f) ==
    IF listing = <<>> THEN sorted
    ELSE SortFrom(InsertBySize(sorted, Head(listing), f), Tail(listing), f)

SortBySize(listing, f) == SortFrom(<<>>, listing, f)

get_files_sorted_by_size(listing, f) == SortBySize(listing, f)

all_extensions(cfg) ==
    (IF cfg.target_type \in {"images", "both"} THEN cfg.image_extensions ELSE <<>>)
    \o (IF cfg.target_type \in {"videos", "both"} THEN cfg.video_extensions ELSE <<>>)

determine_media_type(p, cfg) ==
    IF cfg.target_type \in {"images", "both"} /\ ExtIn(p, cfg.image_extensions)
    THEN ImageLabel
    ELSE IF cfg.target_type \in {"videos", "both"} /\ ExtIn(p, cfg.video_extensions)
    THEN VideoLabel
    ELSE "none"

-----------------------------------------------------------------------------
(* batch_renamer.py: group and number *)

GroupKey(p, cfg) ==
    [rel_dir    |-> IF cfg.recursive THEN p.dir ELSE Root,
     media_type |-> determine_media_type(p, cfg)]

\* the keys of grouped_files in insertion order (a dict keeps it)
RECURSIVE GroupKeys(_, _, _)
GroupKeys(sorted, cfg, seen) ==
    IF sorted = <<>> THEN seen
    ELSE LET key == GroupKey(Head(sorted), cfg)
         IN  IF key.media_type = "none" \/ key \in Range(seen)
             THEN GroupKeys(Tail(sorted), cfg, seen)
             ELSE GroupKeys(Tail(sorted), cfg, Append(seen, key))

GroupFiles(sorted, cfg, key) ==
    SelectSeq(sorted, LAMBDA p : GroupKey(p, cfg) = key)

\* the two nested loops of batch_rename, flattened: each file with the
\* group it is in and its index in enumerate(file_list, 1)
GroupItems(sorted, cfg, key) ==
    LET file_list == GroupFiles(sorted, cfg, key)
    IN  [idx \in 1..Len(file_list) |->
            [file_path  |-> file_list[idx],
             idx        |-> idx,
             rel_dir    |-> key.rel_dir,
             media_type |-> key.media_type]]

grouped_files(sorted, cfg) ==
    LET keys == GroupKeys(sorted, cfg, <<>>)
    IN  Concat([g \in 1..Len(keys) |-> GroupItems(sorted, cfg, keys[g])])

-----------------------------------------------------------------------------
(* batch_renamer.py: the new name *)

IllegalChars == {"\\", "/", ":", "*", "?", "\"", "<", ">", "|"}

\* part.split("_", 1)[0]
BeforeFirstUnderscore(part) ==
    LET at == {i \in 1..Len(part) : part[i] = "_"}
    IN  IF at = {} THEN part
        ELSE SubSeq(part, 1, (CHOOSE i \in at : \A j \in at : i <= j) - 1)

\* re.sub(r'[\\/:*?"<>|]', "_", part)
Sanitize(part) == [i \in 1..Len(part) |-> IF part[i] \in IllegalChars THEN "_" ELSE part[i]]

\* part.strip("_")
StripUnderscores(part) ==
    LET keep == {i \in 1..Len(part) : part[i] # "_"}
    IN  IF keep = {} THEN <<>>
        ELSE SubSeq(part, CHOOSE i \in keep : \A j \in keep : i <= j,
                          CHOOSE i \in keep : \A j \in keep : i >= j)

RECURSIVE Join(_)
Join(tokens) == IF tokens = <<>> THEN "" ELSE Head(tokens) \o Join(Tail(tokens))

ProcessPart(part, exclude_underscore) ==
    StripUnderscores(Sanitize(
        IF exclude_underscore /\ "_" \in Range(part)
        THEN BeforeFirstUnderscore(part) ELSE part))

RECURSIVE PrefixFrom(_, _)
PrefixFrom(parts, exclude_underscore) ==
    IF parts = <<>> THEN ""
    ELSE LET part == ProcessPart(Head(parts), exclude_underscore)
             rest == PrefixFrom(Tail(parts), exclude_underscore)
         IN  IF part # <<>> THEN Join(part) \o "_" \o rest ELSE rest

\* "_".join(processed_parts) + "_", or "" when no part is left
process_parent_folder_name(p, exclude_underscore) ==
    IF p.dir = Root THEN "" ELSE PrefixFrom(p.dir, exclude_underscore)

new_name(item, cfg) ==
    IF cfg.recursive /\ item.rel_dir # Root
    THEN process_parent_folder_name(item.file_path, cfg.exclude_underscore)
             \o item.media_type \o "_" \o ToString(item.idx)
    ELSE item.media_type \o "_" \o ToString(item.idx)

output_base(cfg) ==
    IF cfg.mode = "rename_in_place" THEN Root
    ELSE IF cfg.output_dir # "none" THEN Root
    ELSE <<RenameOutput>>

target_dir(item, cfg) ==
    IF cfg.mode = "rename_in_place" THEN item.file_path.dir
    ELSE output_base(cfg) \o item.rel_dir

new_path(item, cfg) ==
    MkPath(target_dir(item, cfg), new_name(item, cfg), item.file_path.ext)

\* the while loop: base_1, base_2, ... until the path is free
RECURSIVE FreePath(_, _, _)
FreePath(f, path, counter) ==
    LET candidate == MkPath(path.dir, path.stem \o "_" \o ToString(counter), path.ext)
    IN  IF Exists(f, candidate) THEN FreePath(f, path, counter + 1) ELSE candidate

\* no look at the destination at all
KeepPath(f, file_path, path) == path

AvoidOverwrite(f, file_path, path) ==
    IF Exists(f, path) /\ file_path # path THEN FreePath(f, path, 1) ELSE path

-----------------------------------------------------------------------------
(* batch_renamer.py: the filesystem operations *)

\* dir and every directory above it (os.makedirs)
WithParents(dir) == {SubSeq(dir, 1, k) : k \in 0..Len(dir)}

Put(f, p, content) == [x \in DOMAIN f \cup {p} |-> IF x = p THEN content ELSE f[x]]

Remove(f, p) == [x \in DOMAIN f \ {p} |-> f[x]]

\* os.rename and shutil.move on one filesystem: the source takes the
\* destination's place; onto itself it changes nothing
Rename(f, src, dst) == IF src = dst THEN f ELSE Put(Remove(f, src), dst, f[src])

\* a copy that takes the source away, as a move does
CopyAsMove(f, src, dst) == IF src = dst THEN f ELSE Put(Remove(f, src), dst, f[src])

\* shutil.copy2
Copy(f, src, dst) == Put(f, dst, f[src])

ApplyOp(f, mode, src, dst) ==
    IF mode = "copy_rename" THEN Copy(f, src, dst) ELSE Rename(f, src, dst)

\* what makes the operation raise whatever the environment does: a source
\* that is gone, and shutil.copy2 of a file onto itself (SameFileError)
MustFail(f, mode, src, dst) ==
    \/ ~Exists(f, src)
    \/ mode = "copy_rename" /\ src = dst

-----------------------------------------------------------------------------
(* batch_renamer.py: batch_rename as a state machine *)

\* the files a run may find under the input root
Candidates ==
    {MkPath(Root, "a", ".png"),
     MkPath(Root, "img_1", ".png"),
     MkPath(Root, "img_1_1", ".png"),
     MkPath(Root, "c", ".MP4"),
     MkPath(<<SubDir>>, "d", ".png")}

InitialTrees ==
    UNION {[S -> [size : 1..MaxSize]] :
              S \in {T \in SUBSET Candidates : Cardinality(T) <= MaxFiles}}

\* a file's content is whatever it was created with: the path it had when
\* the run began, and its size
Stamp(f) == [p \in DOMAIN f |-> [orig |-> p, size |-> f[p].size]]

\* exclude_underscore and output_dir are read only in recursive and in
\* copy/move mode; elsewhere they keep the dataclass defaults
RenameConfigs ==
    {c \in [mode               : {"rename_in_place", "copy_rename", "move_rename"},
            output_dir         : {"none", "input"},
            target_type        : {"images", "videos", "both"},
            image_extensions   : {<<"png", ".JPG">>},
            video_extensions   : {<<" ", "MP4">>},
            recursive          : BOOLEAN,
            exclude_underscore : BOOLEAN] :
        /\ c.mode = "rename_in_place" => c.output_dir = "none"
        /\ ~c.recursive => c.exclude_underscore}

RenameStart ==
    /\ config \in RenameConfigs
    /\ input_is_dir \in BOOLEAN
    /\ fs0 \in IF input_is_dir THEN {Stamp(f) : f \in InitialTrees} ELSE {<<>>}
    /\ fs = fs0
    /\ dirs = UNION {WithParents(p.dir) : p \in DOMAIN fs0}
    /\ pc = "start"
    /\ files = <<>>
    /\ queue = <<>>
    /\ success_count = 0
    /\ fail_count = 0
    /\ errors = <<>>
    /\ ops = <<>>

\* batch_rename up to the first file: the directory check, the listing, the
\* sort, the creation of the output base, the grouping
Collect ==
    /\ pc = "start"
    /\ UNCHANGED <<fs, fs0, config, input_is_dir, success_count, ops>>
    /\ UNCHANGED <<qcVars, notifyVars, encodeVars, execVars>>
    /\ IF ~input_is_dir
       THEN /\ pc' = "done"
            /\ fail_count' = 1
            /\ errors' = <<"not a directory">>
            /\ UNCHANGED <<dirs, files, queue>>
       ELSE \E listing \in Listings(fs, all_extensions(config), config.recursive) :
            LET sorted == get_files_sorted_by_size(listing, fs)
            IN  /\ files' = sorted
                /\ UNCHANGED <<fail_count, errors>>
                /\ IF sorted = <<>>
                   THEN /\ pc' = "done"
                        /\ UNCHANGED <<dirs, queue>>
                   ELSE \/ /\ pc' = "apply"
                           /\ dirs' = dirs \cup WithParents(output_base(config))
                           /\ queue' = grouped_files(sorted, config)
                        \* os.makedirs(output_base) raises, outside any try
                        \/ /\ config.mode # "rename_in_place"
                           /\ pc' = "raised_base"
                           /\ UNCHANGED <<dirs, queue>>

\* one iteration of the inner loop; after the last one batch_rename returns
\* success_count, fail_count, errors
ApplyFile ==
    /\ pc = "apply"
    /\ queue # <<>>
    /\ LET item == Head(queue)
           file_path == item.file_path
           first == new_path(item, config)
           dst == AvoidOverwrite(fs, file_path, first)
           makes_dir == config.mode # "rename_in_place" /\ item.rel_dir # Root
           forced == MustFail(fs, config.mode, file_path, dst)
           after == IF Tail(queue) = <<>> THEN "done" ELSE "apply"
       IN  \/ \* os.makedirs(target_dir) raises, outside the try
              /\ makes_dir
              /\ pc' = "raised_item"
              /\ UNCHANGED <<fs, dirs, queue, success_count, fail_count, errors, ops>>
           \/ \* the operation goes through
              /\ ~forced
              /\ fs' = ApplyOp(fs, config.mode, file_path, dst)
              /\ dirs' = IF makes_dir THEN dirs \cup WithParents(target_dir(item, config))
                         ELSE dirs
              /\ success_count' = success_count + 1
              /\ ops' = Append(ops, [src |-> file_path, first |-> first, dst |-> dst,
                                     ok |-> TRUE, forced |-> FALSE,
                                     clobbered |-> Exists(fs, dst) /\ dst # file_path])
              /\ queue' = Tail(queue)
              /\ pc' = after
              /\ UNCHANGED <<fail_count, errors>>
           \/ \* the operation raises; the except clause records it
              /\ dirs' = IF makes_dir THEN dirs \cup WithParents(target_dir(item, config))
                         ELSE dirs
              /\ fail_count' = fail_count + 1
              /\ errors' = Append(errors, file_path)
              /\ ops' = Append(ops, [src |-> file_path, first |-> first, dst |-> dst,
                                     ok |-> FALSE, forced |-> forced,
                                     clobbered |-> FALSE])
              /\ queue' = Tail(queue)
              /\ pc' = after
              /\ UNCHANGED <<fs, success_count>>
    /\ UNCHANGED <<fs0, config, input_is_dir, files>>
    /\ UNCHANGED <<qcVars, notifyVars, encodeVars, execVars>>

RenameNext == Collect \/ ApplyFile

\* the run batch_rename makes from tree f over the items q when the
\* environment fails no operation: the (source, destination) pairs in order
RECURSIVE RunFrom(_, _, _)
RunFrom(f, q, cfg) ==
    IF q = <<>> THEN <<>>
    ELSE LET src == Head(q).file_path
             dst == AvoidOverwrite(f, src, new_path(Head(q), cfg))
             g == IF MustFail(f, cfg.mode, src, dst) THEN f
                  ELSE ApplyOp(f, cfg.mode, src, dst)
         IN  <<[src |-> src, dst |-> dst]>> \o RunFrom(g, Tail(q), cfg)

Assignment(o) == [i \in 1..Len(o) |-> [src |-> o[i].src, dst |-> o[i].dst]]

\* no operation of the run failed for a reason outside the program
NoEnvFailure == \A i \in 1..Len(ops) : ops[i].ok \/ ops[i].forced

-----------------------------------------------------------------------------
(* Claims about batch_rename *)

Suffixed(path, k) == MkPath(path.dir, path.stem \o "_" \o ToString(k), path.ext)

\* C1: no step of batch_rename writes onto a path that holds a file other
\* than the source; a destination that is taken is replaced by the first of
\* path_1, path_2, ... that is free, before the operation is performed.
C1_NoOverwrite ==
    \A i \in 1..Len(ops) :
        /\ ~ops[i].clobbered
        /\ ops[i].dst # ops[i].first =>
              /\ ops[i].first \in DOMAIN fs0
                    \/ \E j \in 1..(i - 1) : ops[j].ok /\ ops[j].dst = ops[i].first
              /\ \E k \in 1..(Cardinality(DOMAIN fs0) + i) :
                    /\ ops[i].dst = Suffixed(ops[i].first, k)
                    /\ \A m \in 1..(k - 1) :
                          \/ Suffixed(ops[i].first, m) \in DOMAIN fs0
                          \/ \E j \in 1..(i - 1) :
                                ops[j].ok /\ ops[j].dst = Suffixed(ops[i].first, m)

\* a file was written under a suffixed name because its name was taken
C1_Witness ==
    \E i \in 1..Len(ops) : ops[i].ok /\ ops[i].dst # ops[i].first

\* C2: whatever per-file step fails (the operation, or the creation of the
\* file's target subdirectory), no exception leaves batch_rename, every
\* matched file is attempted once, and the counts add up.
C2_NoItemExceptionEscapes ==
    /\ pc # "raised_item"
    /\ pc = "done" /\ input_is_dir =>
          /\ Len(ops) = Len(files)
          /\ \A i, j \in 1..Len(ops) : ops[i].src = ops[j].src => i = j
          /\ success_count + fail_count = Len(files)
          /\ Len(errors) = fail_count

\* the k-th smallest of the sizes of the files in S
KthSmallest(f, S, k) ==
    CHOOSE v \in {f[p].size : p \in S} :
        /\ Cardinality({p \in S : f[p].size < v}) < k
        /\ k <= Cardinality({p \in S : f[p].size <= v})

Matched(f, cfg) ==
    {p \in DOMAIN f : /\ determine_media_type(p, cfg) # "none"
                      /\ cfg.recursive \/ p.dir = Root}

InGroup(f, cfg, key) == {p \in Matched(f, cfg) : GroupKey(p, cfg) = key}

\* the tree is flat and no file in it bears a name the run hands out
FlatAndFresh(f, cfg) ==
    \A p \in DOMAIN f :
        /\ p.dir = Root
        /\ \A k \in 1..Cardinality(DOMAIN f) :
              p.stem \notin {ImageLabel \o "_" \o ToString(k), VideoLabel \o "_" \o ToString(k)}

\* C3: within a group (relative directory, media type) the files get the
\* indices 1..n, each once, in ascending order of size; in a flat tree with
\* no colliding names, renamed in place, the file with the k-th smallest size
\* of its group ends up as label_k with its own extension.
C3_Sequencing ==
    /\ (pc = "apply" /\ ops = <<>>) =>
          /\ {queue[i].file_path : i \in 1..Len(queue)} = Matched(fs0, config)
          /\ \A i \in 1..Len(queue) :
                LET group == InGroup(fs0, config,
                                 [rel_dir |-> queue[i].rel_dir,
                                  media_type |-> queue[i].media_type])
                IN  /\ queue[i].file_path \in group
                    /\ queue[i].idx \in 1..Cardinality(group)
                    /\ fs0[queue[i].file_path].size = KthSmallest(fs0, group, queue[i].idx)
          /\ \A i, j \in 1..Len(queue) :
                (/\ queue[i].rel_dir = queue[j].rel_dir
                 /\ queue[i].media_type = queue[j].media_type
                 /\ queue[i].idx = queue[j].idx) => i = j
    /\ (/\ pc = "done"
        /\ config.mode = "rename_in_place"
        /\ FlatAndFresh(fs0, config)
        /\ fail_count = 0) =>
          \A label \in {ImageLabel, VideoLabel} :
              LET group == InGroup(fs0, config, [rel_dir |-> Root, media_type |-> label])
              IN  \A k \in 1..Cardinality(group) :
                      \E p \in DOMAIN fs :
                          /\ p.dir = Root
                          /\ p.stem = label \o "_" \o ToString(k)
                          /\ p.ext = fs[p].orig.ext
                          /\ fs[p].orig \in group
                          /\ fs[p].size = KthSmallest(fs0, group, k)

\* a flat, fresh tree renamed in place whose image group holds two files of
\* different sizes
C3_Witness ==
    /\ pc = "done"
    /\ config.mode = "rename_in_place"
    /\ FlatAndFresh(fs0, config)
    /\ fail_count = 0
    /\ \E p, q \in InGroup(fs0, config, [rel_dir |-> Root, media_type |-> ImageLabel]) :
          fs0[p].size < fs0[q].size

\* every run from the tree fs0, whatever the listing, assigns as this one did
SameForEveryListing ==
    \A listing \in Listings(fs0, all_extensions(config), config.recursive) :
        RunFrom(fs0, grouped_files(get_files_sorted_by_size(listing, fs0), config), config)
            = Assignment(ops)

DistinctSizes(f, cfg) ==
    \A p, q \in Matched(f, cfg) : f[p].size = f[q].size => p = q

\* C4 as claimed: two runs from the same tree with the same config assign the
\* same destinations, for every order of the listing, files of equal size
\* included.
C4_DeterministicForEveryListing ==
    (pc = "done" /\ input_is_dir /\ NoEnvFailure) => SameForEveryListing

\* C4 as amended: the same, provided no two matched files have the same size;
\* files of equal size are numbered in the order of the listing.
C4_DeterministicForDistinctSizes ==
    (pc = "done" /\ input_is_dir /\ NoEnvFailure /\ DistinctSizes(fs0, config))
        => SameForEveryListing

\* a finished run over two files of one directory, of different sizes, which
\* the listing may hand over in either order
C4_Witness ==
    /\ pc = "done"
    /\ NoEnvFailure
    /\ DistinctSizes(fs0, config)
    /\ Len(ops) >= 2
    /\ Cardinality(Listings(fs0, all_extensions(config), config.recursive)) >= 2

\* C16: when no file matches the extension sets and the target class (in
\* flat mode the files in subdirectories do not count), batch_rename returns
\* (0, 0, []) and the tree is as it was: no file touched, no directory made,
\* the output directory of copy and move mode included.
C16_NoMatchNoEffect ==
    (input_is_dir /\ Matched(fs0, config) = {}) =>
        /\ pc \in {"start", "done"}
        /\ pc = "done" =>
              /\ success_count = 0 /\ fail_count = 0 /\ errors = <<>>
              /\ ops = <<>>
              /\ fs = fs0
              /\ dirs = UNION {WithParents(p.dir) : p \in DOMAIN fs0}

\* a flat copy run returned over a tree whose only matching file sits in
\* a subdirectory
C16_Witness ==
    /\ pc = "done"
    /\ input_is_dir
    /\ config.mode = "copy_rename"
    /\ ~config.recursive
    /\ Matched(fs0, config) = {}
    /\ \E p \in DOMAIN fs0 : p.dir # Root /\ ExtIn(p, all_extensions(config))

\* the (source, destination) pairs of a second run with the same config
\* on the tree the first run left, for one order of the listing
SecondRun(listing) ==
    RunFrom(fs, grouped_files(get_files_sorted_by_size(listing, fs), config), config)

\* C28: after one in-place run over files of pairwise distinct sizes with
\* no failure, a second run with the same config changes no file name:
\* every destination it computes is the file's current path.
C28_SecondRunChangesNothing ==
    (/\ pc = "done" /\ input_is_dir
     /\ config.mode = "rename_in_place"
     /\ DistinctSizes(fs0, config)
     /\ \A i \in 1..Len(ops) : ops[i].ok) =>
        \A listing \in Listings(fs, all_extensions(config), config.recursive) :
            \A i \in 1..Len(SecondRun(listing)) :
                SecondRun(listing)[i].src = SecondRun(listing)[i].dst

\* the frame of a copy run: what was there is there, unchanged
InitialFilesKept == \A p \in DOMAIN fs0 : p \in DOMAIN fs /\ fs[p] = fs0[p]

\* every file that was not there is the copy of a file that was
NewFilesAreCopies ==
    \A p \in DOMAIN fs \ DOMAIN fs0 :
        \E i \in 1..Len(ops) :
            /\ ops[i].ok /\ ops[i].dst = p
            /\ ops[i].src \in DOMAIN fs0
            /\ fs[p] = fs0[ops[i].src]

\* C29: in copy_rename mode batch_rename removes, renames and overwrites
\* no file that was under the root before the run: every initial file is
\* at its path with its content, and the changes are new directories and
\* new copies only.
C29_CopyKeepsInitialFiles ==
    (input_is_dir /\ config.mode = "copy_rename") =>
        /\ InitialFilesKept
        /\ NewFilesAreCopies
        /\ UNION {WithParents(p.dir) : p \in DOMAIN fs0} \subseteq dirs

\* a copy run over two files has ended, one copy under a suffixed name
\* because the output directory is the input root and the name was taken
C29_Witness ==
    /\ pc = "done"
    /\ input_is_dir /\ config.mode = "copy_rename"
    /\ Cardinality(DOMAIN fs \ DOMAIN fs0) >= 2
    /\ \E i \in 1..Len(ops) : ops[i].ok /\ ops[i].dst # ops[i].first

-----------------------------------------------------------------------------
(* qc.py: constants *)

PR_INCOMPATIBLE_CONTAINERS == {".mkv", ".webm", ".ogv", ".ogg", ".flv"}

PR_INCOMPATIBLE_CODECS == {"vp8", "vp9", "av1", "theora"}

PR_INCOMPATIBLE_IMAGE_FORMATS == {".webp", ".heic", ".avif"}

COMMON_IMAGE_EXTENSIONS ==
    {".jpg", ".jpeg", ".png", ".gif", ".bmp", ".tiff", ".tif", ".webp", ".heic", ".avif"}

\* scan_directory's default extensions
DEFAULT_SCAN_EXTENSIONS ==
    {".mp4", ".mov", ".avi", ".mkv", ".webm", ".flv", ".wmv", ".m4v", ".ts", ".mts", ".m2ts",
     ".jpg", ".jpeg", ".png", ".gif", ".bmp", ".tiff", ".tif", ".avif", ".webp"}

\* f.read(16)
HeaderBytes == 16

\* the least length detect_image_format_by_header looks at
MinHeader == 4

-----------------------------------------------------------------------------
(* qc.py: detect_image_format_by_header *)

Min(a, b) == IF a <= b THEN a ELSE b

\* the Python slice h[a:b]
Slice(h, a, b) == SubSeq(h, a + 1, Min(b, Len(h)))

SigJPEG == <<255, 216, 255>>
SigPNG == <<137, 80, 78, 71, 13, 10, 26, 10>>
SigGIF == <<71, 73, 70, 56>>
SigBM == <<66, 77>>
SigTIFF_LE == <<73, 73, 42, 0>>
SigTIFF_BE == <<77, 77, 0, 42>>
SigRIFF == <<82, 73, 70, 70>>
SigWEBP == <<87, 69, 66, 80>>
SigFtyp == <<102, 116, 121, 112>>
BrandHeic == <<104, 101, 105, 99>>
BrandHeix == <<104, 101, 105, 120>>
BrandHevc == <<104, 101, 118, 99>>
BrandHevx == <<104, 101, 118, 120>>
BrandMif1 == <<109, 105, 102, 49>>
BrandAvif == <<97, 118, 105, 102>>
BrandAvis == <<97, 118, 105, 115>>
BrandIsom == <<105, 115, 111, 109>>

\* "none" stands for None; a file that cannot be opened also yields None
detect_image_format_by_header(file) ==
    LET header == Slice(file.bytes, 0, HeaderBytes)
    IN  IF ~file.readable THEN "none"
        ELSE IF Len(header) < MinHeader THEN "none"
        ELSE IF Slice(header, 0, 3) = SigJPEG THEN "jpeg"
        ELSE IF Slice(header, 0, 8) = SigPNG THEN "png"
        ELSE IF Slice(header, 0, 4) = SigGIF THEN "gif"
        ELSE IF Slice(header, 0, 2) = SigBM THEN "bmp"
        ELSE IF Slice(header, 0, 4) \in {SigTIFF_LE, SigTIFF_BE} THEN "tiff"
        ELSE IF /\ Slice(header, 0, 4) = SigRIFF
                /\ Len(header) >= 12
                /\ Slice(header, 8, 12) = SigWEBP THEN "webp"
        ELSE IF Len(header) >= 12 /\ Slice(header, 4, 8) = SigFtyp
        THEN IF Slice(header, 8, 12) \in {BrandHeic, BrandHeix, BrandHevc, BrandHevx, BrandMif1}
             THEN "heic"
             ELSE IF Slice(header, 8, 12) \in {BrandAvif, BrandAvis} THEN "avif"
             ELSE "none"
        ELSE "none"

get_expected_extension(detected_format) ==
    CASE detected_format = "jpeg" -> ".jpg"
      [] detected_format = "png"  -> ".png"
      [] detected_format = "gif"  -> ".gif"
      [] detected_format = "bmp"  -> ".bmp"
      [] detected_format = "tiff" -> ".tiff"
      [] detected_format = "webp" -> ".webp"
      [] detected_format = "heic" -> ".heic"
      [] detected_format = "avif" -> ".avif"
      [] OTHER -> ""

\* detected_format.upper()
Upper(s) ==
    CASE s = "jpeg" -> "JPEG"
      [] s = "png"  -> "PNG"
      [] s = "gif"  -> "GIF"
      [] s = "bmp"  -> "BMP"
      [] s = "tiff" -> "TIFF"
      [] s = "webp" -> "WEBP"
      [] s = "heic" -> "HEIC"
      [] s = "avif" -> "AVIF"
      [] OTHER -> s

\* str.lower() of the extensions and codec names that occur
LowerName(s) ==
    CASE s = ".MKV" -> ".mkv"
      [] s = ".JPG" -> ".jpg"
      [] s = "VP9"  -> "vp9"
      [] OTHER -> s

equivalent_exts(ext) ==
    CASE ext \in {".jpg", ".jpeg"} -> {".jpg", ".jpeg"}
      [] ext \in {".tiff", ".tif"} -> {".tiff", ".tif"}
      [] OTHER -> {ext}

-----------------------------------------------------------------------------
(* qc.py: MediaInfo and probe_media *)

\* MediaInfo(path=file_path) after __post_init__
NewMediaInfo(file) ==
    [path               |-> file.stem \o file.ext,
     filename           |-> file.stem \o file.ext,
     container          |-> LowerName(file.ext),
     duration_sec       |-> 0,
     video_codec        |-> "",
     width              |-> 0,
     height             |-> 0,
     fps                |-> 0,
     bitrate_kbps       |-> 0,
     audio_codec        |-> "",
     audio_bitrate_kbps |-> 0,
     errors             |-> <<>>,
     warnings           |-> <<>>,
     is_valid           |-> TRUE]

\* a value of the prober's JSON: a key that is missing, a number, or text
\* that int() and float() reject
Absent == [k |-> "absent", v |-> 0]
Num(n) == [k |-> "num", v |-> n]
NotNum == [k |-> "text", v |-> 0]

\* int(d.get(key, default)): the number, or the exception
IntOf(field, default) ==
    CASE field.k = "absent" -> [raised |-> FALSE, v |-> default]
      [] field.k = "num"    -> [raised |-> FALSE, v |-> field.v]
      [] OTHER              -> [raised |-> TRUE, v |-> 0]

\* stream.get("codec_name", "unknown")
NameOf(name) == IF name = "absent" THEN "unknown" ELSE name

\* r_frame_rate "num/den" -> round(num / den, 2), in hundredths; 0 when the
\* denominator is 0 or the text is no ratio of two integers (the inner
\* try/except).  An absent key reads "0/1".
FpsOf(rate) ==
    CASE rate.k = "absent" -> 0
      [] rate.k = "ratio"  -> IF rate.den # 0 THEN (100 * rate.num) \div rate.den ELSE 0
      [] OTHER             -> 0

\* one turn of the loop over the streams; raised when int() rejects a value,
\* with whatever had been assigned by then
ParseStream(info, stream) ==
    IF stream.codec_type = "video"
    THEN LET named == [info EXCEPT !.video_codec = NameOf(stream.codec_name)]
             w == IntOf(stream.width, 0)
             h == IntOf(stream.height, 0)
         IN  IF w.raised THEN [raised |-> TRUE, info |-> named]
             ELSE IF h.raised
             THEN [raised |-> TRUE, info |-> [named EXCEPT !.width = w.v]]
             ELSE [raised |-> FALSE,
                   info |-> [named EXCEPT !.width = w.v, !.height = h.v,
                                          !.fps = FpsOf(stream.r_frame_rate)]]
    ELSE IF stream.codec_type = "audio"
    THEN LET named == [info EXCEPT !.audio_codec = NameOf(stream.codec_name)]
             b == IntOf(stream.bit_rate, 0)
         IN  IF b.raised THEN [raised |-> TRUE, info |-> named]
             ELSE [raised |-> FALSE,
                   info |-> [named EXCEPT !.audio_bitrate_kbps = b.v \div 1000]]
    ELSE [raised |-> FALSE, info |-> info]

RECURSIVE ParseStreams(_, _)
ParseStreams(info, streams) ==
    IF streams = <<>> THEN [raised |-> FALSE, info |-> info]
    ELSE LET r == ParseStream(info, Head(streams))
         IN  IF r.raised THEN r ELSE ParseStreams(r.info, Tail(streams))

\* the info it returns, or the exception with the info as far as it got
parse_ffprobe_output(file, data) ==
    LET info == NewMediaInfo(file)
        duration == IntOf(data.format.duration, 0)
        bit_rate == IntOf(data.format.bit_rate, 0)
    IN  IF duration.raised THEN [raised |-> TRUE, info |-> info]
        ELSE IF bit_rate.raised
        THEN [raised |-> TRUE, info |-> [info EXCEPT !.duration_sec = duration.v]]
        ELSE ParseStreams([info EXCEPT !.duration_sec = duration.v,
                                       !.bitrate_kbps = bit_rate.v \div 1000],
                          data.streams)

Finding(rule, text) == [rule |-> rule, text |-> text]

\* the result of the except clause, as a bug would have it: the info the
\* parser had filled in so far, marked invalid
KeepPartial(file, parsed) ==
    IF parsed.raised
    THEN [parsed.info EXCEPT !.is_valid = FALSE,
                             !.errors = <<Finding("probe_failed", "parse")>>]
    ELSE parsed.info

\* what probe_media returns once the prober's output has been read as JSON
ParsedOrFailed(file, parsed) ==
    IF parsed.raised
    THEN [NewMediaInfo(file) EXCEPT !.is_valid = FALSE,
                                    !.errors = <<Finding("probe_failed", "parse")>>]
    ELSE parsed.info

\* out is what running the prober on the file gives: the process cannot be
\* started, it exits non-zero, or it exits 0 with a stdout that is or is not
\* JSON
probe_media(file, out) ==
    CASE out.kind = "spawn_error" ->
            [NewMediaInfo(file) EXCEPT !.is_valid = FALSE,
                                       !.errors = <<Finding("probe_failed", "spawn")>>]
      [] out.kind = "exit" ->
            [NewMediaInfo(file) EXCEPT !.is_valid = FALSE,
                                       !.errors = <<Finding("cannot_read", out.stderr)>>]
      [] out.kind = "bad_json" ->
            [NewMediaInfo(file) EXCEPT !.is_valid = FALSE,
                                       !.errors = <<Finding("probe_failed", "json")>>]
      [] OTHER -> ParsedOrFailed(file, parse_ffprobe_output(file, out.data))

-----------------------------------------------------------------------------
(* qc.py: check_compatibility *)

\* str.split("x") of the resolution strings that occur
SplitX(s) ==
    CASE s = "2x2"   -> <<"2", "2">>
      [] s = "4x4"   -> <<"4", "4">>
      [] s = "2x"    -> <<"2", "">>
      [] s = "x4"    -> <<"", "4">>
      [] s = "2x2x2" -> <<"2", "2", "2">>
      [] s = "axb"   -> <<"a", "b">>
      [] OTHER       -> <<s>>

\* int(text): the number, or the exception
IntOfText(t) ==
    CASE t = "2" -> [raised |-> FALSE, v |-> 2]
      [] t = "4" -> [raised |-> FALSE, v |-> 4]
      [] OTHER   -> [raised |-> TRUE, v |-> 0]

\* w, h = map(int, s.split("x")): two integers, or the exception
ParseResolution(s) ==
    LET parts == SplitX(s)
    IN  IF Len(parts) = 2 /\ ~IntOfText(parts[1]).raised /\ ~IntOfText(parts[2]).raised
        THEN [raised |-> FALSE, w |-> IntOfText(parts[1]).v, h |-> IntOfText(parts[2]).v]
        ELSE [raised |-> TRUE, w |-> 0, h |-> 0]

\* a warning that is added only when the list does not hold it yet
WarnOnce(info, rule, text) ==
    IF Finding(rule, text) \in Range(info.warnings) THEN info
    ELSE [info EXCEPT !.warnings = Append(@, Finding(rule, text))]

Warn(info, rule, text) == [info EXCEPT !.warnings = Append(@, Finding(rule, text))]

Err(info, rule, text) == [info EXCEPT !.errors = Append(@, Finding(rule, text))]

\* a custom set when one is given (an empty one counts as none), else the default
containers_to_check(rules) ==
    IF rules.incompatible_containers # {} THEN rules.incompatible_containers
    ELSE PR_INCOMPATIBLE_CONTAINERS

codecs_to_check(rules) ==
    IF rules.incompatible_codecs # {} THEN rules.incompatible_codecs
    ELSE PR_INCOMPATIBLE_CODECS

images_to_check(rules) ==
    IF rules.incompatible_images # {} THEN rules.incompatible_images
    ELSE PR_INCOMPATIBLE_IMAGE_FORMATS

ResText(info) == ToString(info.width) \o "x" \o ToString(info.height)

\* the ceiling rule firing already at the ceiling
MaxBitrateRuleAtCeiling(info, rules) ==
    IF rules.max_bitrate_kbps > 0 /\ info.bitrate_kbps >= rules.max_bitrate_kbps
    THEN Warn(info, "max_bitrate",
              ToString(info.bitrate_kbps) \o ">" \o ToString(rules.max_bitrate_kbps))
    ELSE info

MaxBitrateRule(info, rules) ==
    IF rules.max_bitrate_kbps > 0 /\ info.bitrate_kbps > rules.max_bitrate_kbps
    THEN Warn(info, "max_bitrate",
              ToString(info.bitrate_kbps) \o ">" \o ToString(rules.max_bitrate_kbps))
    ELSE info

MinBitrateRule(info, rules) ==
    IF rules.min_bitrate_kbps > 0 /\ info.bitrate_kbps < rules.min_bitrate_kbps
    THEN Warn(info, "min_bitrate",
              ToString(info.bitrate_kbps) \o "<" \o ToString(rules.min_bitrate_kbps))
    ELSE info

\* the ceiling rule taking a limit it cannot parse for 0x0
MaxResolutionRuleZeroOnError(info, rules) ==
    LET max == ParseResolution(rules.max_resolution)
    IN  IF /\ rules.max_resolution # ""
           /\ info.width > max.w \/ info.height > max.h
        THEN Warn(info, "max_resolution", ResText(info) \o ">" \o rules.max_resolution)
        ELSE info

MaxResolutionRule(info, rules) ==
    LET max == ParseResolution(rules.max_resolution)
    IN  IF /\ rules.max_resolution # ""
           /\ ~max.raised
           /\ info.width > max.w \/ info.height > max.h
        THEN Warn(info, "max_resolution", ResText(info) \o ">" \o rules.max_resolution)
        ELSE info

MinResolutionRule(info, rules) ==
    LET min == ParseResolution(rules.min_resolution)
    IN  IF /\ rules.min_resolution # ""
           /\ ~min.raised
           /\ info.width < min.w \/ info.height < min.h
        THEN Warn(info, "min_resolution", ResText(info) \o "<" \o rules.min_resolution)
        ELSE info

ContainerRule(info, rules) ==
    IF rules.check_pr_video /\ info.container \in containers_to_check(rules)
    THEN Warn(info, "container", info.container)
    ELSE info

CodecRule(info, rules) ==
    IF rules.check_pr_video /\ LowerName(info.video_codec) \in codecs_to_check(rules)
    THEN Warn(info, "codec", info.video_codec)
    ELSE info

MkvRule(info, rules) ==
    IF rules.check_pr_video /\ info.container = ".mkv"
    THEN Warn(info, "mkv", "")
    ELSE info

\* the image format finding filed under the warnings
ImageFormatRuleAsWarning(info, rules) ==
    IF rules.check_pr_image /\ info.container \in images_to_check(rules)
    THEN Warn(info, "image_format", info.container)
    ELSE info

ImageFormatRule(info, rules) ==
    IF rules.check_pr_image /\ info.container \in images_to_check(rules)
    THEN Err(info, "image_format", info.container)
    ELSE info

\* the signature rule applied whatever the extension is
SignatureRuleAnyExtension(info, rules, file) ==
    LET detected_format == detect_image_format_by_header(file)
        expected_ext == get_expected_extension(detected_format)
        actual_ext == LowerName(info.container)
    IN  IF /\ rules.check_pr_image
           /\ detected_format # "none"
           /\ equivalent_exts(actual_ext) \cap equivalent_exts(expected_ext) = {}
        THEN Warn(info, "signature",
                  Upper(detected_format) \o "(" \o expected_ext \o ")" \o actual_ext)
        ELSE info

\* file is what info.path names on disk
SignatureRule(info, rules, file) ==
    LET detected_format == detect_image_format_by_header(file)
        expected_ext == get_expected_extension(detected_format)
        actual_ext == LowerName(info.container)
    IN  IF /\ rules.check_pr_image
           /\ LowerName(info.container) \in COMMON_IMAGE_EXTENSIONS
           /\ detected_format # "none"
           /\ equivalent_exts(actual_ext) \cap equivalent_exts(expected_ext) = {}
        THEN Warn(info, "signature",
                  Upper(detected_format) \o "(" \o expected_ext \o ")" \o actual_ext)
        ELSE info

\* the rules with the MKV hint ahead of the two blacklists
RuleOrderMkvFirst ==
    <<"max_bitrate", "min_bitrate", "max_resolution", "min_resolution",
      "mkv", "container", "codec", "image_format", "signature">>

\* the rules in the order check_compatibility goes through them
RuleOrder ==
    <<"max_bitrate", "min_bitrate", "max_resolution", "min_resolution",
      "container", "codec", "mkv", "image_format", "signature">>

ApplyRule(rule, info, rules, file) ==
    CASE rule = "max_bitrate"    -> MaxBitrateRule(info, rules)
      [] rule = "min_bitrate"    -> MinBitrateRule(info, rules)
      [] rule = "max_resolution" -> MaxResolutionRule(info, rules)
      [] rule = "min_resolution" -> MinResolutionRule(info, rules)
      [] rule = "container"      -> ContainerRule(info, rules)
      [] rule = "codec"          -> CodecRule(info, rules)
      [] rule = "mkv"            -> MkvRule(info, rules)
      [] rule = "image_format"   -> ImageFormatRule(info, rules)
      [] OTHER                   -> SignatureRule(info, rules, file)

\* info after the first n rules
RECURSIVE CheckUpTo(_, _, _, _)
CheckUpTo(n, info, rules, file) ==
    IF n = 0 THEN info
    ELSE ApplyRule(RuleOrder[n], CheckUpTo(n - 1, info, rules, file), rules, file)

check_compatibility(info, rules, file) == CheckUpTo(Len(RuleOrder), info, rules, file)

-----------------------------------------------------------------------------
(* qc.py: the inputs *)

MaxKbps == 2
MaxStreams == 2
MaxEvals == 2
MaxScan == 2

QCFile(stem, ext, bytes, readable) ==
    [stem |-> stem, ext |-> ext, bytes |-> bytes, readable |-> readable]

HeadMp4 == <<0, 0, 0, 24>> \o SigFtyp \o BrandIsom
HeadMkv == <<26, 69, 223, 163>>
HeadWebp == SigRIFF \o <<36, 0, 0, 0>> \o SigWEBP
HeadJpeg == SigJPEG \o <<224>>
HeadHeic == <<0, 0, 0, 24>> \o SigFtyp \o BrandHeic

\* the files probed and evaluated one at a time
QCFiles ==
    {QCFile("clip", ".mp4", HeadMp4, TRUE),
     QCFile("film", ".MKV", HeadMkv, TRUE),
     QCFile("pic", ".webp", HeadWebp, TRUE),
     QCFile("art", ".webp", HeadJpeg, TRUE),
     QCFile("shot", ".jpg", SigPNG, TRUE),
     QCFile("photo", ".jpeg", HeadJpeg, TRUE),
     QCFile("tiny", ".png", SigJPEG, TRUE),
     QCFile("locked", ".png", HeadJpeg, FALSE),
     QCFile("fake", ".mp4", HeadJpeg, TRUE),
     QCFile("scan", ".tif", SigTIFF_LE, TRUE),
     QCFile("live", ".heic", HeadHeic, TRUE)}

\* the files a scanned directory may hold
ScanFiles ==
    {QCFile("clip", ".mp4", HeadMp4, TRUE),
     QCFile("film", ".MKV", HeadMkv, TRUE),
     QCFile("art", ".webp", HeadJpeg, TRUE),
     QCFile("live", ".heic", HeadHeic, TRUE),
     QCFile("notes", ".txt", <<>>, TRUE)}

NoFile == QCFile("", "", <<>>, FALSE)

Ratio(num, den) == [k |-> "ratio", num |-> num, den |-> den]
NoRatio(kind) == [k |-> kind, num |-> 0, den |-> 0]

Stream(type, name, width, height, rate, bit_rate) ==
    [codec_type |-> type, codec_name |-> name, width |-> width, height |-> height,
     r_frame_rate |-> rate, bit_rate |-> bit_rate]

StreamKinds ==
    {Stream("video", "h264", Num(2), Num(2), Ratio(30, 1), Absent),
     Stream("video", "VP9", Num(4), Num(4), Ratio(1, 0), Absent),
     Stream("video", "h264", NotNum, Num(2), NoRatio("text"), Absent),
     Stream("audio", "aac", Absent, Absent, NoRatio("absent"), Num(128500)),
     Stream("data", "absent", Absent, Absent, NoRatio("absent"), Absent)}

StreamLists == UNION {[1..n -> StreamKinds] : n \in 0..MaxStreams}

\* bit_rate values in bit/s: every half kbps up to MaxKbps + 1
BitRates == {Num(500 * k) : k \in 0..(2 * (MaxKbps + 1))} \cup {Absent, NotNum}

ProbeFailures ==
    {[kind |-> "spawn_error"], [kind |-> "exit", stderr |-> "moov atom not found"],
     [kind |-> "bad_json"]}

Json(duration, bit_rate, streams) ==
    [kind |-> "json",
     data |-> [format |-> [duration |-> duration, bit_rate |-> bit_rate],
               streams |-> streams]]

ProbeOutputs ==
    ProbeFailures \cup {Json(Num(5), b, ss) : b \in BitRates, ss \in StreamLists}

\* the probe outputs met while scanning a directory
ScanOutputs ==
    ProbeFailures \cup
    {Json(Num(5), Num(500), <<Stream("video", "h264", Num(2), Num(2), Ratio(30, 1), Absent)>>),
     Json(Num(5), Num(1000 * MaxKbps),
          <<Stream("video", "VP9", Num(4), Num(4), Ratio(1, 0), Absent)>>)}

Thresholds == (-1)..MaxKbps

RuleRecords(bitrates, max_res, min_res, flags, containers, codecs, images) ==
    [max_bitrate_kbps        : bitrates,
     min_bitrate_kbps        : bitrates,
     max_resolution          : max_res,
     min_resolution          : min_res,
     check_pr_video          : flags,
     check_pr_image          : flags,
     incompatible_containers : containers,
     incompatible_codecs     : codecs,
     incompatible_images     : images]

\* every bitrate threshold with and without resolution limits, every way of
\* writing a resolution limit, and every setting of the compatibility checks
RuleSets ==
    RuleRecords(Thresholds, {"", "2x2"}, {"", "4x4"}, {TRUE}, {{}}, {{}}, {{}})
    \cup RuleRecords({0}, {"", "2x2", "2x", "2x2x2"}, {"", "4x4", "axb"},
                     {TRUE}, {{}}, {{}}, {{}})
    \cup RuleRecords({0}, {""}, {""}, BOOLEAN,
                     {{}, {".mp4"}}, {{}, {"h264"}}, {{}, {".png"}})

\* the rule parameters scan_directory is called with; its own defaults, which
\* check nothing, are among them
ScanRuleSets ==
    {r \in RuleSets : /\ r.max_resolution = "" /\ r.min_resolution = ""
                      /\ r.incompatible_containers = {} /\ r.incompatible_codecs = {}
                      /\ r.incompatible_images = {}
                      /\ r.max_bitrate_kbps \in {0, 1}
                      /\ r.min_bitrate_kbps \in {0, MaxKbps}}

NoRules == CHOOSE r \in RuleSets :
               /\ r.max_bitrate_kbps = 0 /\ r.min_bitrate_kbps = 0
               /\ r.max_resolution = "" /\ r.min_resolution = ""
               /\ ~r.check_pr_video /\ ~r.check_pr_image
               /\ r.incompatible_containers = {} /\ r.incompatible_codecs = {}
               /\ r.incompatible_images = {}

NoInfo == NewMediaInfo(NoFile)

\* no prober was run
NoOutput == [kind |-> "none"]

NoReport == [total |-> 0, ok_count |-> 0, warnings_count |-> 0, errors_count |-> 0,
             blocks |-> <<>>]

\* no file at output_path
NotWritten == [exists |-> FALSE, text |-> NoReport]

-----------------------------------------------------------------------------------------------------------------------------------------
(* notify_config.py *)

\* a text is the sequence of its pieces; the placeholder is one piece
TaskPlaceholder == "{task}"

\* the module's _notify_config as the import leaves it
DefaultNotifyConfig ==
    [enabled         |-> FALSE,
     feishu_webhook  |-> "",
     feishu_title    |-> "title",
     feishu_content  |-> <<"finished">>,
     feishu_color    |-> "blue",
     webhook_url     |-> "",
     webhook_headers |-> "headers",
     webhook_body    |-> <<"message">>]

EmptyDict == [k \in {} |-> ""]

\* the dicts given to update_notify_config, stored in the config file, or
\* assigned item by item to a dict get_notify_config returned
UpdateDicts ==
    {EmptyDict,
     [enabled |-> TRUE],
     [enabled |-> FALSE],
     [feishu_webhook |-> "https://feishu"],
     [feishu_webhook |-> "", webhook_url |-> "https://hook"],
     [enabled |-> TRUE, webhook_url |-> ""],
     [note |-> "extra"]}

\* a dict handed out that is the module's own dict, not a copy of it
ReturnTheConfigItself(cfg) == [d |-> cfg, shared |-> TRUE]

\* _notify_config.copy(): equal items, another object
get_notify_config(cfg) == [d |-> cfg, shared |-> FALSE]

\* dict.update
update_notify_config(cfg, updates) == updates @@ cfg

\* del d[k]
WithoutKey(d, k) == [x \in (DOMAIN d) \ {k} |-> d[x]]

NoCall == [op |-> "none", arg |-> EmptyDict, before |-> DefaultNotifyConfig]

\* str.replace(old, new): every piece that is old becomes new
Replace(text, old, new) == [i \in 1..Len(text) |-> IF text[i] = old THEN new ELSE text[i]]

\* the sender calls of a send_auto_notification that goes by the two URLs
\* and not by the enabled flag
SendWhateverEnabled(cfg, task_name) ==
    (IF cfg.feishu_webhook # ""
     THEN <<[sender |-> "feishu", url |-> cfg.feishu_webhook, title |-> cfg.feishu_title,
             content |-> Replace(cfg.feishu_content, TaskPlaceholder, task_name),
             color |-> cfg.feishu_color, headers_json |-> ""]>>
     ELSE <<>>)
    \o (IF cfg.webhook_url # ""
        THEN <<[sender |-> "webhook", url |-> cfg.webhook_url, title |-> "",
                content |-> Replace(cfg.webhook_body, TaskPlaceholder, task_name),
                color |-> "", headers_json |-> cfg.webhook_headers]>>
        ELSE <<>>)

\* the sender calls send_auto_notification makes, in order; content is the
\* content of the Feishu call and the body_json of the webhook call
send_auto_notification(cfg, task_name) ==
    IF ~cfg.enabled THEN <<>>
    ELSE (IF cfg.feishu_webhook # ""
          THEN <<[sender |-> "feishu", url |-> cfg.feishu_webhook, title |-> cfg.feishu_title,
                  content |-> Replace(cfg.feishu_content, TaskPlaceholder, task_name),
                  color |-> cfg.feishu_color, headers_json |-> ""]>>
          ELSE <<>>)
         \o (IF cfg.webhook_url # ""
             THEN <<[sender |-> "webhook", url |-> cfg.webhook_url, title |-> "",
                     content |-> Replace(cfg.webhook_body, TaskPlaceholder, task_name),
                     color |-> "", headers_json |-> cfg.webhook_headers]>>
             ELSE <<>>)

TaskNames == {"encode", "qc"}

\* message templates: without the placeholder, with one, with two
Texts == {<<"finished">>, <<TaskPlaceholder, " is done">>,
          <<TaskPlaceholder, "/", TaskPlaceholder>>}

\* the configs send_auto_notification may find, as update_notify_config or
\* load_notify_config left them
SendConfigs ==
    {[DefaultNotifyConfig EXCEPT !.enabled = e, !.feishu_webhook = f, !.webhook_url = w,
                                 !.feishu_content = c, !.webhook_body = b] :
        e \in BOOLEAN, f \in {"", "https://feishu"}, w \in {"", "https://hook"},
        c \in Texts, b \in Texts}

\* the module as imported; its caller stands at p
NotifyAt(p) ==
    /\ npc = p
    /\ notify_config \in (IF p = "sending" THEN SendConfigs ELSE {DefaultNotifyConfig})
    /\ notify_config_loaded = FALSE
    /\ returned = get_notify_config(DefaultNotifyConfig)
    /\ notify_op = NoCall
    /\ calls = <<>>

-----------------
(* encode_params.py *)
(* The labels of the GUI are written by their ASCII part: "Custom" is the  *)
(* custom preset, "2-Pass VBR" the two-pass rate control mode.             *)

\* Python's None, and a string value
None == [some |-> FALSE]
Some(v) == [some |-> TRUE, v |-> v]

\* the truth value of an Optional[str]: None and "" are false
Truthy(o) == o.some /\ o.v # ""

\* an attribute the namespace lacks, and one it has
Missing == [has |-> FALSE]
Attr(val) == [has |-> TRUE, val |-> val]

\* getattr(args, name, default)
GetAttr(a, default) == IF a.has THEN a.val ELSE default

CustomPreset == "Custom"

RATE_CONTROL_MODES ==
    [n \in {"CRF/CQ", "VBR", "CBR", "2-Pass VBR"} |->
        CASE n = "CRF/CQ" -> "crf"
          [] n = "VBR" -> "vbr"
          [] n = "CBR" -> "cbr"
          [] n = "2-Pass VBR" -> "2pass"]

\* dict.get(key, default) on RATE_CONTROL_MODES
RateControlGet(name, default) ==
    IF name \in DOMAIN RATE_CONTROL_MODES THEN RATE_CONTROL_MODES[name] ELSE default

\* QUALITY_PRESETS, by the audio encoder of each preset; the custom
\* preset holds None
BuiltInPresets == {"x264 (CRF18)", "AMV", "NVIDIA", "NVIDIA (HQ)"}

QUALITY_PRESETS ==
    [n \in BuiltInPresets \cup {CustomPreset} |->
        [audio_encoder |-> IF n = CustomPreset THEN None ELSE Some("copy")]]

AUDIO_ENCODERS ==
    [n \in {"AAC", "MP3", "WAV", "FLAC", "Copy"} |->
        CASE n = "AAC" -> "aac"
          [] n = "MP3" -> "libmp3lame"
          [] n = "WAV" -> "pcm_s16le"
          [] n = "FLAC" -> "flac"
          [] n = "Copy" -> "copy"]

\* dict.get(key, default) on AUDIO_ENCODERS
AudioEncodersGet(name, default) ==
    IF name \in DOMAIN AUDIO_ENCODERS THEN AUDIO_ENCODERS[name] ELSE default

\* a get_encode_mode that asks for two-pass before it asks for compat
TwoPassBeforeCompat(p) ==
    IF p.is_custom /\ p.rc_mode = Some("2pass") /\ Truthy(p.bitrate) THEN "TWO_PASS"
    ELSE IF p.compat_mode /\ Truthy(p.subtitle_path) THEN "COMPAT"
    ELSE "NORMAL"

\* EncodeParams.get_encode_mode
get_encode_mode(p) ==
    IF p.compat_mode /\ Truthy(p.subtitle_path) THEN "COMPAT"
    ELSE IF p.is_custom /\ p.rc_mode = Some("2pass") /\ Truthy(p.bitrate) THEN "TWO_PASS"
    ELSE "NORMAL"

\* resolve_encoder_params, for the fields get_encode_mode reads, the
\* preset name, the audio encoder and dry_run; the video encoder, quality,
\* speed, resolution, fps and output path it also resolves are read by no
\* decision modelled here
resolve_encoder_params(args) ==
    LET preset_name == args.preset
        is_custom == preset_name = CustomPreset
        rc_mode_name == GetAttr(args.rate_control, "CRF/CQ")
        rc_mode == RateControlGet(rc_mode_name, "crf")
        given_bitrate == GetAttr(args.video_bitrate, Some(""))
        video_bitrate == IF Truthy(given_bitrate) THEN given_bitrate ELSE None
    IN  [bitrate |-> IF is_custom THEN video_bitrate ELSE None,
         rc_mode |-> IF is_custom THEN Some(rc_mode) ELSE None,
         subtitle_path |-> IF Truthy(args.subtitle) THEN args.subtitle ELSE None,
         compat_mode |-> GetAttr(args.compat_mode, FALSE),
         audio_encoder |-> IF ~is_custom /\ preset_name \in DOMAIN QUALITY_PRESETS
                           THEN QUALITY_PRESETS[preset_name].audio_encoder
                           ELSE Some(AudioEncodersGet(args.audio_encoder, "copy")),
         dry_run |-> GetAttr(args.debug_mode, FALSE),
         is_custom |-> is_custom,
         preset_name |-> preset_name]

\* the namespaces: a preset of QUALITY_PRESETS or an unknown one, the
\* rate control and the bitrate absent, empty or set
EncodeArgs ==
    [preset : {"x264 (CRF18)", CustomPreset, "no such preset"},
     rate_control : {Missing, Attr("2-Pass VBR"), Attr("VBR"), Attr("no such mode")},
     video_bitrate : {Missing, Attr(None), Attr(Some("")), Attr(Some("10M"))},
     subtitle : {None, Some(""), Some("sub.ass")},
     compat_mode : {Missing, Attr(FALSE), Attr(TRUE)},
     audio_encoder : {"Copy"},
     debug_mode : {Missing}]

\* EncodeParams instances built directly, as the dataclass allows
DirectParams ==
    [bitrate : {None, Some(""), Some("10M")},
     rc_mode : {None, Some("crf"), Some("vbr"), Some("2pass")},
     subtitle_path : {None, Some(""), Some("sub.ass")},
     compat_mode : BOOLEAN,
     audio_encoder : {Some("copy")},
     dry_run : {FALSE},
     is_custom : BOOLEAN,
     preset_name : {"x264 (CRF18)"}]

NoArgs == [preset |-> "", rate_control |-> Missing, video_bitrate |-> Missing,
           subtitle |-> None, compat_mode |-> Missing, audio_encoder |-> "",
           debug_mode |-> Missing, absent |-> TRUE]

\* the dataclass defaults
DefaultParams ==
    [bitrate |-> None, rc_mode |-> None, subtitle_path |-> None,
     compat_mode |-> FALSE, audio_encoder |-> Some("copy"), dry_run |-> FALSE,
     is_custom |-> FALSE, preset_name |-> ""]

NoMode == "none"

\* the caller of encode_params.py stands at p
EncodeAt(p) ==
    /\ epc = p
    /\ encode_args \in (IF p = "args" THEN EncodeArgs ELSE {NoArgs})
    /\ params \in (IF p = "params" THEN DirectParams ELSE {DefaultParams})
    /\ encode_mode = NoMode

-----------------
(* qc.py: generate_report *)

HasErrors(r) == r.errors # <<>>
HasWarnings(r) == r.warnings # <<>>

errors_count(rs) == Cardinality({i \in 1..Len(rs) : HasErrors(rs[i])})
warnings_count(rs) == Cardinality({i \in 1..Len(rs) : HasWarnings(rs[i])})
BothCount(rs) == Cardinality({i \in 1..Len(rs) : HasErrors(rs[i]) /\ HasWarnings(rs[i])})

\* the arithmetic with the term for the files counted twice left out
OkCountWithoutBoth(rs) == Len(rs) - errors_count(rs) - warnings_count(rs)

ok_count(rs) ==
    Len(rs) - errors_count(rs) - warnings_count(rs) + BothCount(rs)

status_icon(r) == IF HasErrors(r) THEN "x" ELSE IF HasWarnings(r) THEN "!" ELSE "ok"

Line(kind, text, rule) == [kind |-> kind, text |-> text, rule |-> rule]

FindingLines(kind, fs_) == [i \in 1..Len(fs_) |-> Line(kind, fs_[i].text, fs_[i].rule)]

\* the lines generate_report writes for one result
ReportBlock(r) ==
    <<Line("file", "[" \o status_icon(r) \o "] " \o r.filename, ""),
      Line("path", r.path, "")>>
    \o (IF r.is_valid
        THEN <<Line("video", r.container \o "|" \o r.video_codec \o "|"
                             \o ToString(r.width) \o "x" \o ToString(r.height), ""),
               Line("rates", ToString(r.fps) \o "|" \o ToString(r.bitrate_kbps)
                             \o "|" \o ToString(r.duration_sec), "")>>
        ELSE <<>>)
    \o FindingLines("error", r.errors)
    \o FindingLines("warning", r.warnings)

generate_report(rs) ==
    [total          |-> Len(rs),
     ok_count       |-> ok_count(rs),
     warnings_count |-> warnings_count(rs),
     errors_count   |-> errors_count(rs),
     blocks         |-> [i \in 1..Len(rs) |->
                            [icon |-> status_icon(rs[i]), lines |-> ReportBlock(rs[i])]]]

-----------------------------------------------------------------------------
(* qc.py: the state machines *)

\* batch_renamer.py has not been called
\* a call that is not made
Unused == [pc |-> "unused"]

\* no executor call is made
ExecIdle ==
    /\ remux = Unused
    /\ convert = Unused
    /\ encrun = Unused
    /\ compat = Unused
    /\ folders = Unused

RenameIdle ==
    /\ config = CHOOSE c \in RenameConfigs :
                    c.mode = "rename_in_place" /\ c.target_type = "both"
                    /\ c.recursive /\ c.exclude_underscore
    /\ input_is_dir = FALSE
    /\ fs0 = <<>>
    /\ fs = <<>>
    /\ dirs = {}
    /\ pc = "idle"
    /\ files = <<>>
    /\ queue = <<>>
    /\ success_count = 0
    /\ fail_count = 0
    /\ errors = <<>>
    /\ ops = <<>>

\* nothing of qc.py has run; its caller stands at p
QCAt(p) ==
    /\ qpc = p
    /\ qc_file \in (IF p = "probing" THEN QCFiles ELSE {NoFile})
    /\ probe_out \in (IF p = "probing" THEN ProbeOutputs ELSE {NoOutput})
    /\ media_info = NoInfo
    /\ probed = NoInfo
    /\ before = NoInfo
    /\ rule_args \in (IF p = "scanning" THEN ScanRuleSets ELSE {NoRules})
    /\ evals = 0
    /\ walked = <<>>
    /\ results = <<>>
    /\ report = NoReport
    /\ report_dir = TRUE
    /\ report_file = NotWritten
    /\ scan_is_dir \in (IF p = "scanning" THEN BOOLEAN ELSE {TRUE})

RenameInit == RenameStart /\ QCAt("unused") /\ NotifyAt("unused") /\ EncodeAt("unused") /\ ExecIdle

\* a caller runs probe_media on a file
Probe ==
    /\ qpc = "idle"
    /\ \E file \in QCFiles, out \in ProbeOutputs :
          LET r == probe_media(file, out)
          IN  /\ qc_file' = file
              /\ media_info' = r
              /\ probed' = r
              /\ before' = r
    /\ qpc' = "probed"
    /\ UNCHANGED <<probe_out, rule_args, evals, scan_is_dir, walked, results,
                   report, report_dir, report_file>>
    /\ UNCHANGED <<renameVars, notifyVars, encodeVars, execVars>>

\* the caller runs check_compatibility on the MediaInfo it holds: the first
\* time with any rule parameters, then again with the same ones
Evaluate ==
    /\ qpc \in {"probed", "checked"}
    /\ evals < MaxEvals
    /\ \E r \in RuleSets :
          /\ evals > 0 => r = rule_args
          /\ rule_args' = r
          /\ media_info' = check_compatibility(media_info, r, qc_file)
    /\ before' = media_info
    /\ evals' = evals + 1
    /\ qpc' = "checked"
    /\ UNCHANGED <<qc_file, probe_out, probed, scan_is_dir, walked, results,
                   report, report_dir, report_file>>
    /\ UNCHANGED <<renameVars, notifyVars, encodeVars, execVars>>

EvalInit == RenameIdle /\ QCAt("idle") /\ NotifyAt("unused") /\ EncodeAt("unused") /\ ExecIdle

\* probe_media is about to be called on a file for which the prober gives
\* probe_out
ProbeInit == RenameIdle /\ QCAt("probing") /\ NotifyAt("unused") /\ EncodeAt("unused") /\ ExecIdle

\* probe_media runs the prober and returns
ProbeMedia ==
    /\ qpc = "probing"
    /\ media_info' = probe_media(qc_file, probe_out)
    /\ probed' = probe_media(qc_file, probe_out)
    /\ before' = probe_media(qc_file, probe_out)
    /\ qpc' = "probe_done"
    /\ UNCHANGED <<qc_file, probe_out, rule_args, evals, scan_is_dir, walked, results,
                   report, report_dir, report_file>>
    /\ UNCHANGED <<renameVars, notifyVars, encodeVars, execVars>>

EvalNext == Probe \/ Evaluate

\* the extensions scan_directory stops at
InScanSet(ext, rules) ==
    \/ LowerName(ext) \in DEFAULT_SCAN_EXTENSIONS
    \/ LowerName(ext) \in COMMON_IMAGE_EXTENSIONS \cup images_to_check(rules)

\* results without the files whose probe failed
ScanStepValidOnly(rs, file, out, rules) ==
    IF InScanSet(file.ext, rules) /\ probe_media(file, out).is_valid
    THEN Append(rs, check_compatibility(probe_media(file, out), rules, file))
    ELSE rs

\* one turn of scan_directory's loop over the file names
ScanStep(rs, file, out, rules) ==
    IF InScanSet(file.ext, rules)
    THEN Append(rs, check_compatibility(probe_media(file, out), rules, file))
    ELSE rs

\* scan_directory was called with some rule parameters
ScanInit == RenameIdle /\ QCAt("scanning") /\ NotifyAt("unused") /\ EncodeAt("unused") /\ ExecIdle

\* os.walk yields the next file name; over a path that is not a directory
\* it yields nothing and reports nothing
ScanFile ==
    /\ qpc = "scanning"
    /\ scan_is_dir
    /\ Len(walked) < MaxScan
    /\ \E file \in ScanFiles, out \in ScanOutputs :
          /\ walked' = Append(walked, [file |-> file, out |-> out])
          /\ results' = ScanStep(results, file, out, rule_args)
    /\ UNCHANGED <<qpc, qc_file, probe_out, media_info, probed, before, rule_args, evals,
                   scan_is_dir, report, report_dir, report_file>>
    /\ UNCHANGED <<renameVars, notifyVars, encodeVars, execVars>>

\* the walk is over: scan_directory returns and its caller has the report
\* built and written to output_path, whose directory exists or does not;
\* open() raises when it does not, and nothing catches that
GenerateReport ==
    /\ qpc = "scanning"
    /\ \E parent_exists \in BOOLEAN :
          /\ report_dir' = parent_exists
          /\ \/ /\ parent_exists
                /\ report_file' = [exists |-> TRUE, text |-> generate_report(results)]
                /\ report' = generate_report(results)
                /\ qpc' = "reported"
             \/ /\ ~parent_exists
                /\ UNCHANGED <<report_file, report>>
                /\ qpc' = "report_raised"
    /\ UNCHANGED <<qc_file, probe_out, media_info, probed, before, rule_args, evals,
                   scan_is_dir, walked, results>>
    /\ UNCHANGED <<renameVars, notifyVars, encodeVars, execVars>>

ScanNext == ScanFile \/ GenerateReport

-----------------------------------------------------------------------------
(* Claims about qc.py *)

Drop(seq, n) == SubSeq(seq, n + 1, Len(seq))

TechnicalAttributesEmpty(r) ==
    /\ r.duration_sec = 0 /\ r.video_codec = "" /\ r.width = 0 /\ r.height = 0
    /\ r.fps = 0 /\ r.bitrate_kbps = 0 /\ r.audio_codec = "" /\ r.audio_bitrate_kbps = 0

WalkedInScanSet ==
    LET Stops(w) == InScanSet(w.file.ext, rule_args) IN SelectSeq(walked, Stops)

C6_InvalidMeansEmpty ==
    (qpc \in {"probed", "checked"} /\ ~media_info.is_valid) =>
        /\ TechnicalAttributesEmpty(media_info)
        /\ media_info.errors # <<>>

\* the parser raised after it had read some fields, and the result was evaluated
C6_Witness ==
    /\ qpc = "checked"
    /\ ~media_info.is_valid
    /\ media_info.errors[1] = Finding("probe_failed", "parse")
    /\ media_info.warnings # <<>>

\* C7: the passed count of the report is total - errored - warned + both, is
\* the number of results with no error and no warning, is not negative, and
\* is the number of blocks drawn with the pass glyph.
C7_PassedCount ==
    qpc = "reported" =>
        LET clean == {i \in 1..Len(results) :
                         results[i].errors = <<>> /\ results[i].warnings = <<>>}
        IN  /\ report.total = Len(results)
            /\ report.ok_count = report.total - report.errors_count
                                 - report.warnings_count + BothCount(results)
            /\ report.ok_count = Cardinality(clean)
            /\ report.ok_count >= 0
            /\ report.ok_count =
                   Cardinality({i \in 1..Len(report.blocks) : report.blocks[i].icon = "ok"})

\* a report over a result with errors and warnings, and one with neither
C7_Witness ==
    /\ qpc = "reported"
    /\ BothCount(results) > 0
    /\ report.ok_count > 0

\* the findings the latest check_compatibility call added
AddedWarnings == Drop(media_info.warnings, Len(before.warnings))
AddedErrors == Drop(media_info.errors, Len(before.errors))

Names(findings) == {findings[i].rule : i \in 1..Len(findings)}

CeilingWarned == "max_bitrate" \in Names(AddedWarnings)
FloorWarned == "min_bitrate" \in Names(AddedWarnings)

\* C8 as stated, a threshold counting as configured when it is not zero: the
\* ceiling warning is added exactly when the bitrate is above the ceiling,
\* the floor warning exactly when it is below the floor, never as an error.
C8_BitrateRulesForNonZero ==
    qpc = "checked" =>
        /\ rule_args.max_bitrate_kbps # 0 =>
              (CeilingWarned <=> before.bitrate_kbps > rule_args.max_bitrate_kbps)
        /\ rule_args.min_bitrate_kbps # 0 =>
              (FloorWarned <=> before.bitrate_kbps < rule_args.min_bitrate_kbps)
        /\ Names(AddedErrors) \cap {"max_bitrate", "min_bitrate"} = {}

\* C8: for a ceiling above zero the ceiling warning is added exactly when the
\* bitrate is above it, for a floor above zero the floor warning exactly when
\* the bitrate is below it; the finding is a warning, never an error; a
\* threshold of zero or less adds nothing.
C8_BitrateRulesForPositive ==
    qpc = "checked" =>
        /\ rule_args.max_bitrate_kbps > 0 =>
              (CeilingWarned <=> before.bitrate_kbps > rule_args.max_bitrate_kbps)
        /\ rule_args.min_bitrate_kbps > 0 =>
              (FloorWarned <=> before.bitrate_kbps < rule_args.min_bitrate_kbps)
        /\ rule_args.max_bitrate_kbps <= 0 => ~CeilingWarned
        /\ rule_args.min_bitrate_kbps <= 0 => ~FloorWarned
        /\ Names(AddedErrors) \cap {"max_bitrate", "min_bitrate"} = {}

\* a bitrate exactly at the ceiling and below the floor: only the floor warns
C8_Witness ==
    /\ qpc = "checked"
    /\ rule_args.max_bitrate_kbps > 0
    /\ before.bitrate_kbps = rule_args.max_bitrate_kbps
    /\ before.bitrate_kbps < rule_args.min_bitrate_kbps
    /\ FloorWarned /\ ~CeilingWarned

\* C9 as stated: a second check_compatibility with the same rule parameters
\* leaves the warnings and errors as the first application left them.
C9_SecondApplicationAddsNothing ==
    (qpc = "checked" /\ evals >= 2) =>
        /\ media_info.warnings = before.warnings
        /\ media_info.errors = before.errors

\* what one application adds to the MediaInfo probe_media returned
OnceWarnings ==
    Drop(check_compatibility(probed, rule_args, qc_file).warnings, Len(probed.warnings))
OnceErrors ==
    Drop(check_compatibility(probed, rule_args, qc_file).errors, Len(probed.errors))

\* C9: every further check_compatibility with the same rule parameters
\* appends the findings of the first application once more, so the lists
\* stay as they were only when the first application found nothing; nothing
\* else of the MediaInfo changes.
C9_SecondApplicationAddsAgain ==
    (qpc = "checked" /\ evals >= 2) =>
        /\ media_info.warnings = before.warnings \o OnceWarnings
        /\ media_info.errors = before.errors \o OnceErrors
        /\ (media_info.warnings = before.warnings /\ media_info.errors = before.errors)
              <=> (OnceWarnings = <<>> /\ OnceErrors = <<>>)
        /\ [media_info EXCEPT !.warnings = <<>>, !.errors = <<>>]
              = [probed EXCEPT !.warnings = <<>>, !.errors = <<>>]

\* a second application that doubled a warning and an error
C9_Witness ==
    /\ qpc = "checked"
    /\ evals = 2
    /\ OnceWarnings # <<>>
    /\ OnceErrors # <<>>
    /\ Len(media_info.warnings) = 2 * Len(OnceWarnings)

\* the order of the warnings the claim lists
WarningOrder ==
    <<"max_bitrate", "min_bitrate", "max_resolution", "min_resolution",
      "container", "codec", "mkv", "signature">>

Rank(name) == CHOOSE k \in 1..Len(WarningOrder) : WarningOrder[k] = name

OfKind(lines, kind) == LET Is(l) == l.kind = kind IN SelectSeq(lines, Is)

\* C10: no step of check_compatibility removes or reorders what the lists
\* held before it, a probe failure's error included; the warnings one
\* application adds come in the order max bitrate, min bitrate, max
\* resolution, min resolution, container, codec, MKV, signature; and the
\* report prints a file's errors and then its warnings in list order.
C10_AppendOnlyInOrder ==
    qpc = "checked" =>
        /\ \A n \in 1..Len(RuleOrder) :
              LET was == CheckUpTo(n - 1, before, rule_args, qc_file)
                  is == CheckUpTo(n, before, rule_args, qc_file)
              IN  /\ IsPrefix(was.errors, is.errors)
                  /\ IsPrefix(was.warnings, is.warnings)
        /\ IsPrefix(before.errors, media_info.errors)
        /\ IsPrefix(before.warnings, media_info.warnings)
        /\ IsPrefix(probed.errors, media_info.errors)
        /\ Names(AddedWarnings) \subseteq Range(WarningOrder)
        /\ \A i, j \in 1..Len(AddedWarnings) :
              i < j => Rank(AddedWarnings[i].rule) < Rank(AddedWarnings[j].rule)
        /\ LET lines == ReportBlock(media_info)
               found == Drop(lines, Len(lines) - Len(media_info.errors)
                                    - Len(media_info.warnings))
           IN  /\ found = FindingLines("error", media_info.errors)
                          \o FindingLines("warning", media_info.warnings)
               /\ OfKind(lines, "warning") = FindingLines("warning", media_info.warnings)

\* a file whose probe failed got four warnings, the MKV hint among them
C10_Witness ==
    /\ qpc = "checked"
    /\ evals = 1
    /\ probed.errors # <<>>
    /\ Len(media_info.warnings) >= 4
    /\ "mkv" \in Names(media_info.warnings)

\* the condition of the rule a warning comes from holds for the result r of file
Violated(name, r, file) ==
    CASE name = "max_bitrate" ->
             rule_args.max_bitrate_kbps > 0 /\ r.bitrate_kbps > rule_args.max_bitrate_kbps
      [] name = "min_bitrate" ->
             rule_args.min_bitrate_kbps > 0 /\ r.bitrate_kbps < rule_args.min_bitrate_kbps
      [] name = "max_resolution" ->
             /\ ~ParseResolution(rule_args.max_resolution).raised
             /\ \/ r.width > ParseResolution(rule_args.max_resolution).w
                \/ r.height > ParseResolution(rule_args.max_resolution).h
      [] name = "min_resolution" ->
             /\ ~ParseResolution(rule_args.min_resolution).raised
             /\ \/ r.width < ParseResolution(rule_args.min_resolution).w
                \/ r.height < ParseResolution(rule_args.min_resolution).h
      [] name = "container" ->
             rule_args.check_pr_video /\ r.container \in PR_INCOMPATIBLE_CONTAINERS
      [] name = "codec" ->
             rule_args.check_pr_video /\ LowerName(r.video_codec) \in PR_INCOMPATIBLE_CODECS
      [] name = "mkv" -> rule_args.check_pr_video /\ r.container = ".mkv"
      [] name = "signature" ->
             /\ detect_image_format_by_header(file) # "none"
             /\ r.container \notin
                   equivalent_exts(get_expected_extension(detect_image_format_by_header(file)))
      [] OTHER -> FALSE

\* the results of the scan for the files with a blacklisted image extension,
\* scanned with the default sets and the image check on
BlacklistedImages ==
    {i \in 1..Len(results) :
        /\ rule_args.check_pr_image
        /\ rule_args.incompatible_images = {}
        /\ results[i].container \in PR_INCOMPATIBLE_IMAGE_FORMATS}

WarningsHaveCause(i) ==
    \A k \in 1..Len(results[i].warnings) :
        /\ Violated(results[i].warnings[k].rule, results[i], WalkedInScanSet[i].file)
        /\ \A j \in 1..Len(results[i].warnings) :
              results[i].warnings[j].rule = results[i].warnings[k].rule => j = k

\* C11 as stated: a scanned .webp, .heic or .avif file has the image format
\* entry as the only entry of its errors, and each of its warnings comes
\* from a rule whose own condition holds.
C11_OnlyTheImageFormatError ==
    \A i \in BlacklistedImages :
        /\ Len(results[i].errors) = 1
        /\ results[i].errors[1].rule = "image_format"
        /\ WarningsHaveCause(i)

\* C11: a scanned .webp, .heic or .avif file whose probe succeeded has the
\* image format entry as the only entry of its errors; one whose probe
\* failed has the probe's error followed by the image format entry; the
\* finding is never among the warnings, and each warning comes from a rule
\* whose own condition holds.
C11_ImageFormatErrorAfterProbeError ==
    \A i \in BlacklistedImages :
        /\ results[i].is_valid =>
              /\ Len(results[i].errors) = 1
              /\ results[i].errors[1].rule = "image_format"
        /\ ~results[i].is_valid =>
              /\ Len(results[i].errors) = 2
              /\ results[i].errors[1].rule \in {"cannot_read", "probe_failed"}
              /\ results[i].errors[2].rule = "image_format"
        /\ WarningsHaveCause(i)

\* a .heic file that was probed has the one error and no warning, and a
\* .webp file whose probe failed has two errors
C11_Witness ==
    /\ Len(results) = 2
    /\ BlacklistedImages = {1, 2}
    /\ results[1].container = ".heic"
    /\ results[1].is_valid
    /\ results[1].warnings = <<>>
    /\ results[2].container = ".webp"
    /\ ~results[2].is_valid

\* the image format whose signature the first bytes of a file carry
SignatureIn(bytes) ==
    LET h == SubSeq(bytes, 1, Min(HeaderBytes, Len(bytes)))
        At(sig, off) == Len(h) >= off + Len(sig) /\ SubSeq(h, off + 1, off + Len(sig)) = sig
    IN  CASE At(SigJPEG, 0) -> "jpeg"
          [] At(SigPNG, 0) -> "png"
          [] At(SigGIF, 0) -> "gif"
          [] At(SigBM, 0) -> "bmp"
          [] At(SigTIFF_LE, 0) \/ At(SigTIFF_BE, 0) -> "tiff"
          [] At(SigRIFF, 0) /\ At(SigWEBP, 8) -> "webp"
          [] At(SigFtyp, 4) /\ \E b \in {BrandHeic, BrandHeix, BrandHevc, BrandHevx, BrandMif1} :
                                  At(b, 8) -> "heic"
          [] At(SigFtyp, 4) /\ \E b \in {BrandAvif, BrandAvis} : At(b, 8) -> "avif"
          [] OTHER -> "none"

ExtensionsOf(format) ==
    CASE format = "jpeg" -> {".jpg", ".jpeg"}
      [] format = "tiff" -> {".tiff", ".tif"}
      [] OTHER -> {"." \o format}

Mislabelled(file) ==
    /\ SignatureIn(file.bytes) # "none"
    /\ LowerName(file.ext) \notin ExtensionsOf(SignatureIn(file.bytes))

SignatureWarned == "signature" \in Names(AddedWarnings)

\* C12 as stated: with the image check on, a file of any extension gets the
\* signature warning exactly when its first bytes carry a known image
\* signature and its extension is not one of that format's.
C12_SignatureRuleForAnyFile ==
    (qpc = "checked" /\ rule_args.check_pr_image) =>
        (SignatureWarned <=> Mislabelled(qc_file))

\* C12: with the image check on, the signature warning is added exactly when
\* the extension is one of the common image extensions, the file can be
\* read and is at least four bytes long, its first bytes carry a known image
\* signature and its extension is not one of that format's; with the image
\* check off it is never added.
C12_SignatureRuleForImages ==
    qpc = "checked" =>
        (SignatureWarned <=>
            /\ rule_args.check_pr_image
            /\ LowerName(qc_file.ext) \in COMMON_IMAGE_EXTENSIONS
            /\ qc_file.readable
            /\ Len(qc_file.bytes) >= MinHeader
            /\ Mislabelled(qc_file))

\* a .jpg file that starts with the PNG signature was warned about
C12_Witness ==
    /\ qpc = "checked"
    /\ qc_file.ext = ".jpg"
    /\ SignatureIn(qc_file.bytes) = "png"
    /\ SignatureWarned

\* the resolution limits of the rule sets that are two integers around an x
WellFormed == {"2x2", "4x4"}

Malformed(text) == text # "" /\ text \notin WellFormed

\* the rule parameters with the limits that are not well formed left out
WithoutMalformed(rules) ==
    [rules EXCEPT
        !.max_resolution = IF Malformed(@) THEN "" ELSE @,
        !.min_resolution = IF Malformed(@) THEN "" ELSE @]

\* C13: a max_resolution or min_resolution that is not two integers around
\* an x adds no warning of its rule, and check_compatibility gives what it
\* gives with that limit unset: every other rule is evaluated all the same.
C13_MalformedResolutionIgnored ==
    qpc = "checked" =>
        /\ Malformed(rule_args.max_resolution) => "max_resolution" \notin Names(AddedWarnings)
        /\ Malformed(rule_args.min_resolution) => "min_resolution" \notin Names(AddedWarnings)
        /\ media_info = check_compatibility(before, WithoutMalformed(rule_args), qc_file)

\* a 4x4 film was evaluated against limits that do not parse and got the
\* container, codec and MKV warnings and nothing else
C13_Witness ==
    /\ qpc = "checked"
    /\ evals = 1
    /\ Malformed(rule_args.max_resolution)
    /\ Malformed(rule_args.min_resolution)
    /\ before.width = 4
    /\ Names(media_info.warnings) = {"container", "codec", "mkv"}

\* C14: generate_report leaves the report text in the file at output_path
\* and returns it, having created the directory of output_path when it was
\* missing; no exception leaves the call.
C14_ReportWrittenWithParents ==
    /\ qpc # "report_raised"
    /\ qpc = "reported" =>
          /\ report_dir
          /\ report_file = [exists |-> TRUE, text |-> generate_report(results)]
          /\ report = report_file.text

\* C15, for the scan: when the directory given to scan_directory is not a
\* directory the operation ends as a failure before anything is iterated:
\* no report is produced and no file is written.
C15_InvalidScanRootFails ==
    (~scan_is_dir /\ qpc # "scanning") =>
        /\ qpc \notin {"reported"}
        /\ report_file = NotWritten

\* the streams of a type in the order of the prober's list
StreamsOf(type) ==
    LET Is(st) == st.codec_type = type IN SelectSeq(probe_out.data.streams, Is)

\* C17: of several video streams (several audio streams) in the prober's
\* output, the MediaInfo carries the codec, width, height and fps (the codec
\* and bitrate) of the first one; the later ones of the type change nothing.
C17_FirstStreamOfEachType ==
    (qpc = "probe_done" /\ probe_out.kind = "json" /\ media_info.is_valid) =>
        /\ StreamsOf("video") # <<>> =>
              LET first == StreamsOf("video")[1]
              IN  /\ media_info.video_codec = NameOf(first.codec_name)
                  /\ media_info.width = IntOf(first.width, 0).v
                  /\ media_info.height = IntOf(first.height, 0).v
                  /\ media_info.fps = FpsOf(first.r_frame_rate)
        /\ StreamsOf("audio") # <<>> =>
              LET first == StreamsOf("audio")[1]
              IN  /\ media_info.audio_codec = NameOf(first.codec_name)
                  /\ media_info.audio_bitrate_kbps = IntOf(first.bit_rate, 0).v \div 1000

-----------------------------------------------------------------------------
(* notify_config.py: the state machines *)

\* what a change of the object behind returned does to the module's dict
Behind(handle, d) == IF handle.shared THEN d ELSE notify_config

GetNotifyConfig ==
    /\ npc = "config"
    /\ returned' = get_notify_config(notify_config)
    /\ notify_op' = [op |-> "get", arg |-> EmptyDict, before |-> notify_config]
    /\ UNCHANGED <<npc, notify_config, notify_config_loaded, calls>>
    /\ UNCHANGED <<renameVars, qcVars, encodeVars, execVars>>

\* the caller assigns items of the dict it was handed, or deletes one
MutateReturned ==
    /\ npc = "config"
    /\ \/ \E u \in UpdateDicts \ {EmptyDict} :
             /\ returned' = [returned EXCEPT !.d = u @@ @]
             /\ notify_config' = Behind(returned, u @@ returned.d)
             /\ notify_op' = [op |-> "mutate", arg |-> u, before |-> notify_config]
       \/ \E k \in {"enabled", "note"} \cap DOMAIN returned.d :
             /\ returned' = [returned EXCEPT !.d = WithoutKey(@, k)]
             /\ notify_config' = Behind(returned, WithoutKey(returned.d, k))
             /\ notify_op' = [op |-> "delete", arg |-> EmptyDict, before |-> notify_config]
    /\ UNCHANGED <<npc, notify_config_loaded, calls>>
    /\ UNCHANGED <<renameVars, qcVars, encodeVars, execVars>>

UpdateNotifyConfig ==
    /\ npc = "config"
    /\ \E u \in UpdateDicts :
          /\ notify_config' = update_notify_config(notify_config, u)
          /\ returned' = IF returned.shared
                         THEN [returned EXCEPT !.d = update_notify_config(notify_config, u)]
                         ELSE returned
          /\ notify_op' = [op |-> "update", arg |-> u, before |-> notify_config]
    /\ UNCHANGED <<npc, notify_config_loaded, calls>>
    /\ UNCHANGED <<renameVars, qcVars, encodeVars, execVars>>

\* load_notify_config: the file is missing, or is not JSON, or holds a dict
LoadNotifyConfig ==
    /\ npc = "config"
    /\ \/ /\ UNCHANGED <<notify_config, notify_config_loaded, returned>>
          /\ notify_op' = [op |-> "load_nothing", arg |-> EmptyDict, before |-> notify_config]
       \/ \E saved \in UpdateDicts :
             /\ notify_config' = update_notify_config(notify_config, saved)
             /\ returned' = IF returned.shared
                            THEN [returned EXCEPT !.d = update_notify_config(notify_config, saved)]
                            ELSE returned
             /\ notify_config_loaded' = TRUE
             /\ notify_op' = [op |-> "load", arg |-> saved, before |-> notify_config]
    /\ UNCHANGED <<npc, calls>>
    /\ UNCHANGED <<renameVars, qcVars, encodeVars, execVars>>

\* a task has ended and its executor calls send_auto_notification
SendAutoNotification ==
    /\ npc = "sending"
    /\ \E task_name \in TaskNames :
          /\ calls' = send_auto_notification(notify_config, task_name)
          /\ notify_op' = [op |-> task_name, arg |-> EmptyDict, before |-> notify_config]
    /\ npc' = "sent"
    /\ UNCHANGED <<notify_config, notify_config_loaded, returned>>
    /\ UNCHANGED <<renameVars, qcVars, encodeVars, execVars>>

SendInit == RenameIdle /\ QCAt("unused") /\ NotifyAt("sending") /\ EncodeAt("unused") /\ ExecIdle

NotifyInit == RenameIdle /\ QCAt("unused") /\ NotifyAt("config") /\ EncodeAt("unused") /\ ExecIdle

NotifyNext == GetNotifyConfig \/ MutateReturned \/ UpdateNotifyConfig \/ LoadNotifyConfig

-----------------------------------------------------------------------------
(* Claims about notify_config.py *)

\* C18: the module's config changes only through update_notify_config and
\* load_notify_config: a get_notify_config, and an item assigned to or
\* deleted from a dict it returned, leave the config (what the next
\* get_notify_config returns) as it was; update_notify_config(u) sets the
\* keys of u to the values of u and leaves every other key alone, so an
\* empty u changes nothing.
C18_ConfigChangesOnlyByUpdate ==
    LET was == notify_op.before
        u == notify_op.arg
    IN  /\ notify_op.op \in {"get", "mutate", "delete", "load_nothing"} => notify_config = was
        /\ notify_op.op = "get" => returned.d = notify_config
        /\ notify_op.op \in {"update", "load"} =>
              /\ DOMAIN notify_config = DOMAIN was \cup DOMAIN u
              /\ \A k \in DOMAIN u : notify_config[k] = u[k]
              /\ \A k \in DOMAIN was \ DOMAIN u : notify_config[k] = was[k]
              /\ u = EmptyDict => notify_config = was
        /\ get_notify_config(notify_config).d = notify_config

\* the caller flipped enabled in the dict it was handed, and the config
\* still holds the value an update had set
C18_Witness ==
    /\ notify_op.op = "mutate"
    /\ "enabled" \in DOMAIN notify_op.arg
    /\ returned.d.enabled # notify_config.enabled
    /\ notify_config # DefaultNotifyConfig

CallsTo(sender) == LET Is(c) == c.sender = sender IN SelectSeq(calls, Is)

\* the pieces of a text with the task name in the place of each placeholder
Filled(text, task_name) ==
    [i \in 1..Len(text) |-> IF text[i] = "{task}" THEN task_name ELSE text[i]]

\* C19: send_auto_notification calls no sender when enabled is false; when
\* it is true it calls the Feishu sender once exactly when feishu_webhook
\* is not empty and the webhook sender once exactly when webhook_url is not
\* empty, Feishu first, and no "{task}" is left in the content or the body:
\* each one has become the task name.
C19_SendsWhatIsConfigured ==
    npc = "sent" =>
        LET task_name == notify_op.op
            feishu == CallsTo("feishu")
            hook == CallsTo("webhook")
        IN  /\ ~notify_config.enabled => calls = <<>>
            /\ notify_config.enabled =>
                  /\ Len(feishu) = (IF notify_config.feishu_webhook # "" THEN 1 ELSE 0)
                  /\ Len(hook) = (IF notify_config.webhook_url # "" THEN 1 ELSE 0)
                  /\ calls = feishu \o hook
                  /\ \A i \in 1..Len(feishu) :
                        /\ feishu[i].url = notify_config.feishu_webhook
                        /\ feishu[i].content = Filled(notify_config.feishu_content, task_name)
                        /\ "{task}" \notin Range(feishu[i].content)
                  /\ \A i \in 1..Len(hook) :
                        /\ hook[i].url = notify_config.webhook_url
                        /\ hook[i].content = Filled(notify_config.webhook_body, task_name)
                        /\ "{task}" \notin Range(hook[i].content)

\* both senders were called, Feishu first, with a content that held the
\* placeholder twice
C19_Witness ==
    /\ npc = "sent"
    /\ Len(calls) = 2
    /\ calls[1].sender = "feishu"
    /\ calls[2].sender = "webhook"
    /\ notify_config.feishu_content = <<"{task}", "/", "{task}">>
    /\ calls[1].content = <<"qc", "/", "qc">>

\* nothing was sent with both URLs set, enabled being false
C19_WitnessDisabled ==
    /\ npc = "sent"
    /\ ~notify_config.enabled
    /\ notify_config.feishu_webhook # ""
    /\ notify_config.webhook_url # ""
    /\ calls = <<>>

-----------------
(* encode_params.py: the state machine *)

EncodeInit ==
    /\ RenameIdle /\ QCAt("unused") /\ NotifyAt("unused") /\ ExecIdle
    /\ EncodeAt("args") \/ EncodeAt("params")

\* execute_encode resolves the namespace into an EncodeParams
ResolveEncoderParams ==
    /\ epc = "args"
    /\ params' = resolve_encoder_params(encode_args)
    /\ epc' = "params"
    /\ UNCHANGED <<encode_args, encode_mode>>
    /\ UNCHANGED <<renameVars, qcVars, notifyVars, execVars>>

GetEncodeMode ==
    /\ epc = "params"
    /\ encode_mode' = get_encode_mode(params)
    /\ epc' = "mode"
    /\ UNCHANGED <<encode_args, params>>
    /\ UNCHANGED <<renameVars, qcVars, notifyVars, execVars>>

EncodeNext == ResolveEncoderParams \/ GetEncodeMode

-----------------
(* Claims about encode_params.py *)

\* a value other than None and the empty string
IsGiven(o) == o \notin {None, Some("")}

CompatAsked == params.compat_mode /\ IsGiven(params.subtitle_path)

TwoPassAsked == params.is_custom /\ params.rc_mode = Some("2pass") /\ IsGiven(params.bitrate)

FromPreset == encode_args # NoArgs /\ encode_args.preset # CustomPreset

\* C20: get_encode_mode returns COMPAT exactly when compat_mode is set and
\* a subtitle path is given; otherwise TWO_PASS exactly when is_custom,
\* rc_mode = "2pass" and a bitrate is given; otherwise NORMAL.  Parameters
\* resolved from a preset other than the custom one have bitrate and
\* rc_mode None and never give TWO_PASS.
C20_EncodeModeDecision ==
    /\ epc = "mode" =>
          /\ encode_mode \in {"COMPAT", "TWO_PASS", "NORMAL"}
          /\ encode_mode = "COMPAT" <=> CompatAsked
          /\ encode_mode = "TWO_PASS" <=> (~CompatAsked /\ TwoPassAsked)
          /\ encode_mode = "NORMAL" <=> (~CompatAsked /\ ~TwoPassAsked)
    /\ (epc \in {"params", "mode"} /\ FromPreset) =>
          /\ params.bitrate = None
          /\ params.rc_mode = None
          /\ encode_mode # "TWO_PASS"

\* compat and two-pass were both asked for, and the mode is COMPAT
C20_Witness ==
    /\ epc = "mode"
    /\ CompatAsked
    /\ TwoPassAsked
    /\ encode_mode = "COMPAT"

\* a preset was resolved with two-pass and a bitrate in the namespace
C20_WitnessPreset ==
    /\ epc = "mode"
    /\ encode_args # NoArgs
    /\ encode_args.preset = "x264 (CRF18)"
    /\ encode_args.rate_control = Attr("2-Pass VBR")
    /\ encode_args.video_bitrate = Attr(Some("10M"))
    /\ encode_mode = "NORMAL"

-----------------------------------------------------------------------------
(* executors/file_executor.py: execute_remux *)
(* A path is the record (dir, stem, ext) of its directory, the name without *)
(* the extension, and the extension.                                       *)

\* the extension of a remux preset
RemuxExtensions == {".mp4", ".mkv"}

\* what run_ffmpeg_command returns: the exit code of ffmpeg, or -1 when the
\* process could not be spawned
ReturnCodes == {0, 1, -1}

\* utils.auto_generate_output_path(input_path, suffix, extension)
auto_generate_output_path(input_path, suffix, extension) ==
    [dir |-> input_path.dir, stem |-> input_path.stem \o suffix, ext |-> extension]

\* the output path of one input of execute_remux
RemuxOutputPath(input_path, output_dir, extension) ==
    IF output_dir # ""
    THEN [dir |-> output_dir, stem |-> input_path.stem \o "_remux", ext |-> extension]
    ELSE auto_generate_output_path(input_path, "_remux", extension)

\* a bookkeeping that queues the original whatever ffmpeg returned
QueueWhateverResult(queued, overwrite, input_path, output_path, result) ==
    IF overwrite /\ input_path # output_path
    THEN Append(queued, input_path) ELSE queued

\* files_to_delete after one input
RemuxQueue(queued, overwrite, input_path, output_path, result) ==
    IF result = 0 /\ overwrite /\ input_path # output_path
    THEN Append(queued, input_path) ELSE queued

RemuxFiles ==
    {[dir |-> "", stem |-> "a", ext |-> ".mkv"],
     [dir |-> "", stem |-> "b", ext |-> ".mp4"],
     [dir |-> "in", stem |-> "a", ext |-> ".mkv"]}

InputLists(S) == UNION {[1..n -> S] : n \in 0..MaxInputs}

RemuxInit ==
    /\ RenameIdle /\ QCAt("unused") /\ NotifyAt("unused") /\ EncodeAt("unused")
    /\ convert = Unused /\ encrun = Unused /\ compat = Unused /\ folders = Unused
    /\ \E input_files \in InputLists(RemuxFiles), overwrite \in BOOLEAN,
          output_dir \in {"", "out"}, extension \in RemuxExtensions :
          remux = [pc |-> "loop", input_files |-> input_files, overwrite |-> overwrite,
                   output_dir |-> output_dir, extension |-> extension,
                   i |-> 1, runs |-> <<>>, success_count |-> 0, fail_count |-> 0,
                   files_to_delete |-> <<>>, j |-> 1,
                   present |-> Range(input_files), removed |-> <<>>]

\* one turn of the loop over the input files
RemuxFile ==
    /\ remux.pc = "loop"
    /\ remux.i <= Len(remux.input_files)
    /\ \E result \in ReturnCodes :
          LET input_path == remux.input_files[remux.i]
              output_path == RemuxOutputPath(input_path, remux.output_dir, remux.extension)
          IN  remux' = [remux EXCEPT
                  !.i = @ + 1,
                  !.runs = Append(@, [input |-> input_path, output |-> output_path,
                                      code |-> result]),
                  !.success_count = IF result = 0 THEN @ + 1 ELSE @,
                  !.fail_count = IF result = 0 THEN @ ELSE @ + 1,
                  !.files_to_delete = RemuxQueue(@, remux.overwrite, input_path,
                                                 output_path, result),
                  !.present = IF result = 0 THEN @ \cup {output_path} ELSE @]
    /\ UNCHANGED exceptRemux

\* one turn of the loop over files_to_delete; os.remove may raise, which
\* is caught
RemuxDelete ==
    /\ remux.pc = "loop"
    /\ remux.i > Len(remux.input_files)
    /\ remux.overwrite
    /\ remux.j <= Len(remux.files_to_delete)
    /\ LET f == remux.files_to_delete[remux.j]
       IN  \E ok \in IF f \in remux.present THEN BOOLEAN ELSE {FALSE} :
              remux' = [remux EXCEPT
                  !.j = @ + 1,
                  !.present = IF ok THEN @ \ {f} ELSE @,
                  !.removed = IF ok THEN Append(@, f) ELSE @]
    /\ UNCHANGED exceptRemux

\* the summary line
RemuxReport ==
    /\ remux.pc = "loop"
    /\ remux.i > Len(remux.input_files)
    /\ ~remux.overwrite \/ remux.j > Len(remux.files_to_delete)
    /\ remux' = [remux EXCEPT !.pc = "done"]
    /\ UNCHANGED exceptRemux

RemuxNext == RemuxFile \/ RemuxDelete \/ RemuxReport

-----------------
(* Claims about execute_remux *)

\* C21: execute_remux runs one remux command per input file, in input
\* order, whatever the earlier commands returned, and success_count +
\* fail_count is the number of inputs at the end; an original is removed
\* only in overwrite mode, only if a remux of it returned 0 with an output
\* path other than it, and only when every input has been processed.
C21_OneRemuxPerInputDeleteAfter ==
    /\ Len(remux.runs) = remux.i - 1
    /\ Len(remux.runs) <= Len(remux.input_files)
    /\ \A k \in 1..Len(remux.runs) : remux.runs[k].input = remux.input_files[k]
    /\ remux.success_count = Cardinality({k \in 1..Len(remux.runs) : remux.runs[k].code = 0})
    /\ remux.success_count + remux.fail_count = Len(remux.runs)
    /\ remux.pc = "done" =>
          /\ Len(remux.runs) = Len(remux.input_files)
          /\ remux.success_count + remux.fail_count = Len(remux.input_files)
    /\ remux.removed # <<>> =>
          /\ remux.overwrite
          /\ Len(remux.runs) = Len(remux.input_files)
    /\ \A n \in 1..Len(remux.removed) :
          \E k \in 1..Len(remux.runs) :
              /\ remux.runs[k].input = remux.removed[n]
              /\ remux.runs[k].code = 0
              /\ remux.runs[k].output # remux.removed[n]
    /\ \A k \in 1..Len(remux.runs) :
          (remux.pc = "done" /\ remux.runs[k].code # 0
              /\ \A m \in 1..Len(remux.runs) :
                    remux.runs[m].input = remux.runs[k].input => remux.runs[m].code # 0)
          => remux.runs[k].input \in remux.present

\* the first remux failed, the second succeeded and its original alone
\* was removed
C21_Witness ==
    /\ remux.pc = "done"
    /\ remux.overwrite
    /\ Len(remux.runs) = 2
    /\ remux.runs[1].code # 0
    /\ remux.runs[2].code = 0
    /\ remux.runs[1].input # remux.runs[2].input
    /\ remux.removed = <<remux.runs[2].input>>
    /\ remux.runs[1].input \in remux.present

-----------------------------------------------------------------------------
(* executors/video_executor.py: execute_encode *)

\* the parameters of the functions execute_encode calls
RunFfmpegCommandParameters == {"cmd", "progress_callback"}
Run2PassEncodeParameters == {"pass1_cmd", "pass2_cmd"}
RunCompatEncodeParameters ==
    {"input_path", "output_path", "subtitle_path", "encoder", "crf", "bitrate",
     "speed_preset", "resolution", "fps", "audio_encoder", "audio_bitrate",
     "extra_args", "rc_mode", "dry_run"}

\* a Python call binds its keywords to parameters of the callee, and
\* raises TypeError before the body runs when one has no parameter
Accepts(parameters, keywords) == keywords \subseteq parameters

Returned(code) == [kind |-> "return", code |-> code]
Raised(error) == [kind |-> "raise", error |-> error]
NotReturned == [kind |-> "running"]

\* an outcome of a call: what it gave back and how many processes it spawned
Outcome(ret, spawned) == [ret |-> ret, spawned |-> spawned]

\* run_ffmpeg_command called with the given keywords; code is what the
\* process would return
CallRunFfmpegCommand(keywords, code) ==
    IF ~Accepts(RunFfmpegCommandParameters, keywords) THEN Outcome(Raised("TypeError"), 0)
    ELSE Outcome(Returned(code), IF code = -1 THEN 0 ELSE 1)

\* run_2pass_encode called with the given keywords
CallRun2PassEncode(keywords, code1, code2) ==
    IF ~Accepts(Run2PassEncodeParameters, keywords) THEN Outcome(Raised("TypeError"), 0)
    ELSE IF code1 # 0 THEN Outcome(Returned(code1), IF code1 = -1 THEN 0 ELSE 1)
    ELSE Outcome(Returned(code2), IF code2 = -1 THEN 1 ELSE 2)

\* run_compat_encode called with the given keywords: the script generation
\* may raise, which gives -1; dry_run returns 0 before any process
CallRunCompatEncode(keywords, dry_run, script_ok, code) ==
    IF ~Accepts(RunCompatEncodeParameters, keywords) THEN Outcome(Raised("TypeError"), 0)
    ELSE IF ~script_ok THEN Outcome(Returned(-1), 0)
    ELSE IF dry_run THEN Outcome(Returned(0), 0)
    ELSE Outcome(Returned(code), IF code = -1 THEN 0 ELSE 1)

\* the audio encoder execute_encode hands to the command builder
CommandAudioEncoder(p, mode) ==
    IF mode = "COMPAT" THEN p.audio_encoder
    ELSE IF p.is_custom THEN p.audio_encoder ELSE Some("aac")

\* build_encode_command, build_2pass_commands and
\* build_compat_encode_command, by the audio options of the command
BuildCommandAudio(audio_encoder) ==
    IF audio_encoder # Some("copy")
    THEN <<"-c:a", audio_encoder.v, "-b:a">> ELSE <<"-c:a", audio_encoder.v>>

NoCommand == <<>>

ExecEncodeArgs ==
    [preset : {"x264 (CRF18)", "NVIDIA", CustomPreset},
     rate_control : {Missing, Attr("2-Pass VBR")},
     video_bitrate : {Missing, Attr(Some("10M"))},
     subtitle : {None, Some("sub.ass")},
     compat_mode : {Attr(FALSE), Attr(TRUE)},
     audio_encoder : {"AAC", "Copy"},
     debug_mode : {Missing, Attr(FALSE), Attr(TRUE)}]

ExecEncodeInit ==
    /\ RenameIdle /\ QCAt("unused") /\ NotifyAt("unused") /\ EncodeAt("unused")
    /\ remux = Unused /\ convert = Unused /\ compat = Unused /\ folders = Unused
    /\ \E args \in ExecEncodeArgs, valid \in BOOLEAN :
          encrun = [pc |-> "start", args |-> args, valid |-> valid,
                    params |-> DefaultParams, mode |-> NoMode,
                    command |-> NoCommand, ret |-> NotReturned, spawned |-> 0]

\* execute_encode, from the resolution of the namespace to its return
ExecuteEncode ==
    /\ encrun.pc = "start"
    /\ \E code1 \in ReturnCodes, code2 \in ReturnCodes, script_ok \in BOOLEAN :
          LET p == resolve_encoder_params(encrun.args)
              mode == get_encode_mode(p)
              audio == CommandAudioEncoder(p, mode)
              out == IF ~encrun.valid THEN Outcome(Returned(1), 0)
                     ELSE IF mode = "COMPAT"
                     THEN CallRunCompatEncode(RunCompatEncodeParameters, p.dry_run,
                                              script_ok, code1)
                     ELSE IF mode = "TWO_PASS"
                     THEN CallRun2PassEncode({"pass1_cmd", "pass2_cmd", "dry_run"},
                                             code1, code2)
                     ELSE CallRunFfmpegCommand({"cmd", "dry_run"}, code1)
          IN  encrun' = [encrun EXCEPT
                  !.pc = "done",
                  !.params = p,
                  !.mode = IF encrun.valid THEN mode ELSE NoMode,
                  !.command = IF encrun.valid /\ (mode = "COMPAT" => script_ok)
                              THEN BuildCommandAudio(audio) ELSE NoCommand,
                  !.ret = out.ret,
                  !.spawned = out.spawned]
    /\ UNCHANGED exceptEncrun

-----------------
(* Claims about execute_encode *)

\* C22: with debug_mode set and valid parameters, execute_encode returns 0
\* and spawns no encoder process, in each of the three modes.
C22_DryRunReturnsZeroWithoutSpawning ==
    (encrun.pc = "done" /\ encrun.valid /\ encrun.params.dry_run) =>
        /\ encrun.spawned = 0
        /\ encrun.ret = Returned(0)

\* C23: for every built-in preset, the command execute_encode builds
\* carries the audio encoder resolved into EncodeParams, which is "copy".
C23_PresetCommandCopiesAudio ==
    (encrun.pc = "done" /\ encrun.args.preset \in BuiltInPresets
        /\ encrun.command # NoCommand) =>
        /\ encrun.params.audio_encoder = Some("copy")
        /\ encrun.command = <<"-c:a", "copy">>

-----------------------------------------------------------------------------
(* image_converter.py: batch_convert_images, and                           *)
(* executors/file_executor.py: execute_image_convert                       *)

\* the extensions of PIL_FORMAT_MAP
PIL_FORMAT_MAP_KEYS ==
    {".png", ".jpg", ".jpeg", ".webp", ".bmp", ".gif", ".tiff", ".tif", ".ico"}

\* "." + s unless s starts with ".", for the target extensions that occur
WithLeadingDot(s) ==
    CASE s = "png" -> ".png"
      [] s = "jpg" -> ".jpg"
      [] OTHER     -> s

\* the output path batch_convert_images gives one input
ConvertOutputPath(input_path, output_dir, target_extension) ==
    LET basename == input_path.stem
        first == IF output_dir # ""
                 THEN [dir |-> output_dir, stem |-> basename, ext |-> target_extension]
                 ELSE [dir |-> input_path.dir, stem |-> basename, ext |-> target_extension]
    IN  IF input_path = first
        THEN [dir |-> first.dir, stem |-> basename \o "_converted", ext |-> target_extension]
        ELSE first

\* whether the deletion loop of execute_image_convert removes an input
ConvertDeletes(input_path, target_ext) == Lower(input_path.ext) # Lower(target_ext)

ConvertFiles ==
    {[dir |-> "", stem |-> "a", ext |-> ".jpg"],
     [dir |-> "", stem |-> "a", ext |-> ".png"],
     [dir |-> "", stem |-> "a", ext |-> ".bmp"],
     [dir |-> "", stem |-> "b", ext |-> ".PNG"]}

\* the target extension as execute_image_convert reads it from the preset
\* or the custom field
ConvertTargets == {".png", ".jpg", "png", ".heic"}

ConvertInit ==
    /\ RenameIdle /\ QCAt("unused") /\ NotifyAt("unused") /\ EncodeAt("unused")
    /\ remux = Unused /\ encrun = Unused /\ compat = Unused /\ folders = Unused
    /\ \E input_files \in InputLists(ConvertFiles), overwrite \in BOOLEAN,
          output_dir \in {"", "out"}, target \in ConvertTargets :
          convert = [pc |-> "convert", input_files |-> input_files, overwrite |-> overwrite,
                     output_dir |-> output_dir, target_ext |-> WithLeadingDot(target),
                     i |-> 1, runs |-> <<>>, success_count |-> 0, fail_count |-> 0,
                     errors |-> <<>>, j |-> 1,
                     present |-> Range(input_files), removed |-> <<>>]

\* batch_convert_images with a target extension PIL does not know: every
\* input counts as failed and nothing is converted
ConvertUnsupported ==
    /\ convert.pc = "convert"
    /\ Lower(convert.target_ext) \notin PIL_FORMAT_MAP_KEYS
    /\ convert' = [convert EXCEPT
           !.pc = "delete",
           !.fail_count = Len(convert.input_files),
           !.errors = <<"unsupported target format">>]
    /\ UNCHANGED exceptConvert

\* one turn of the loop of batch_convert_images; convert_image catches
\* every exception and reports failure
ConvertImage ==
    /\ convert.pc = "convert"
    /\ Lower(convert.target_ext) \in PIL_FORMAT_MAP_KEYS
    /\ convert.i <= Len(convert.input_files)
    /\ \E success \in BOOLEAN :
          LET input_path == convert.input_files[convert.i]
              output_path == ConvertOutputPath(input_path, convert.output_dir,
                                               Lower(convert.target_ext))
          IN  convert' = [convert EXCEPT
                  !.i = @ + 1,
                  !.pc = IF convert.i = Len(convert.input_files) THEN "delete" ELSE @,
                  !.runs = Append(@, [input |-> input_path, output |-> output_path,
                                      success |-> success]),
                  !.success_count = IF success THEN @ + 1 ELSE @,
                  !.fail_count = IF success THEN @ ELSE @ + 1,
                  !.errors = IF success THEN @ ELSE Append(@, input_path.stem),
                  !.present = IF success THEN @ \cup {output_path} ELSE @]
    /\ UNCHANGED exceptConvert

\* batch_convert_images of no input
ConvertNothing ==
    /\ convert.pc = "convert"
    /\ Lower(convert.target_ext) \in PIL_FORMAT_MAP_KEYS
    /\ convert.input_files = <<>>
    /\ convert' = [convert EXCEPT !.pc = "delete"]
    /\ UNCHANGED exceptConvert

\* one turn of the deletion loop of execute_image_convert
ConvertDelete ==
    /\ convert.pc = "delete"
    /\ convert.overwrite /\ convert.success_count > 0
    /\ convert.j <= Len(convert.input_files)
    /\ LET input_path == convert.input_files[convert.j]
       IN  \E ok \in IF input_path \in convert.present THEN BOOLEAN ELSE {FALSE} :
              LET removes == ConvertDeletes(input_path, convert.target_ext) /\ ok
              IN  convert' = [convert EXCEPT
                      !.j = @ + 1,
                      !.present = IF removes THEN @ \ {input_path} ELSE @,
                      !.removed = IF removes THEN Append(@, input_path) ELSE @]
    /\ UNCHANGED exceptConvert

\* the report of the errors, and the return
ConvertReport ==
    /\ convert.pc = "delete"
    /\ ~(convert.overwrite /\ convert.success_count > 0)
          \/ convert.j > Len(convert.input_files)
    /\ convert' = [convert EXCEPT !.pc = "done"]
    /\ UNCHANGED exceptConvert

ConvertNext ==
    ConvertUnsupported \/ ConvertImage \/ ConvertNothing \/ ConvertDelete \/ ConvertReport

-----------------
(* Claims about the image conversion *)

\* C24: with overwrite, an input is removed only if a conversion of it
\* succeeded and its extension differs from the target extension; an input
\* whose conversion failed is never removed.
C24_DeletedOnlyIfConverted ==
    \A n \in 1..Len(convert.removed) :
        /\ Lower(convert.removed[n].ext) # Lower(convert.target_ext)
        /\ \E k \in 1..Len(convert.runs) :
              convert.runs[k].input = convert.removed[n] /\ convert.runs[k].success

\* C30: batch_convert_images writes no output onto a path that is an input
\* of the batch, and gives no two distinct inputs the same output path.
C30_OutputsApartFromInputs ==
    \A k \in 1..Len(convert.runs) :
        /\ convert.runs[k].success => convert.runs[k].output \notin Range(convert.input_files)
        /\ \A m \in 1..Len(convert.runs) :
              convert.runs[m].input # convert.runs[k].input
                  => convert.runs[m].output # convert.runs[k].output

-----------------------------------------------------------------------------
(* core.py: run_2pass_encode *)

\* the log files run_2pass_encode cleans, "ffmpeg2pass" + each, in order
TwoPassLogs == <<".log", ".log.mbtree", "-0.log", "-0.log.mbtree">>

\* a run_2pass_encode that goes on to pass 2 whatever pass 1 returned
Pass2Always(result1) == TRUE

\* whether run_2pass_encode goes on to pass 2
Pass2Follows(result1) == result1 = 0

TwoPassInit ==
    /\ RenameIdle /\ QCAt("unused") /\ NotifyAt("unused") /\ EncodeAt("unused")
    /\ remux = Unused /\ convert = Unused /\ compat = Unused /\ folders = Unused
    /\ \E stale \in SUBSET Range(TwoPassLogs) :
          encrun = [pc |-> "pass1", events |-> <<>>, logs |-> stale, n |-> 1,
                    result1 |-> 0, result2 |-> 0, ret |-> NotReturned]

\* pass 1: run_ffmpeg_command(pass1_cmd), and the return when it failed;
\* a pass that ran may have written the log files of ffmpeg
Pass1 ==
    /\ encrun.pc = "pass1"
    /\ \E result1 \in ReturnCodes,
          written \in SUBSET {"-0.log", "-0.log.mbtree"} :
          encrun' = [encrun EXCEPT
              !.events = Append(@, [what |-> "pass1", code |-> result1]),
              !.result1 = result1,
              !.logs = IF result1 = -1 THEN @ ELSE @ \cup written,
              !.pc = IF Pass2Follows(result1) THEN "pass2" ELSE "done",
              !.ret = IF Pass2Follows(result1) THEN @ ELSE Returned(result1)]
    /\ UNCHANGED exceptEncrun

\* pass 2: run_ffmpeg_command(pass2_cmd)
Pass2 ==
    /\ encrun.pc = "pass2"
    /\ \E result2 \in ReturnCodes :
          encrun' = [encrun EXCEPT
              !.events = Append(@, [what |-> "pass2", code |-> result2]),
              !.result2 = result2,
              !.pc = "clean"]
    /\ UNCHANGED exceptEncrun

\* one turn of the loop over the log files: os.remove if the file exists,
\* its failure swallowed
CleanLog ==
    /\ encrun.pc = "clean"
    /\ encrun.n <= Len(TwoPassLogs)
    /\ LET log_file == TwoPassLogs[encrun.n]
       IN  \E ok \in IF log_file \in encrun.logs THEN BOOLEAN ELSE {FALSE} :
              encrun' = [encrun EXCEPT
                  !.n = @ + 1,
                  !.logs = IF ok THEN @ \ {log_file} ELSE @,
                  !.events = IF ok THEN Append(@, [what |-> "remove", code |-> 0]) ELSE @]
    /\ UNCHANGED exceptEncrun

Return2Pass ==
    /\ encrun.pc = "clean"
    /\ encrun.n > Len(TwoPassLogs)
    /\ encrun' = [encrun EXCEPT !.pc = "done", !.ret = Returned(encrun.result2)]
    /\ UNCHANGED exceptEncrun

TwoPassNext == Pass1 \/ Pass2 \/ CleanLog \/ Return2Pass

-----------------
(* Claims about run_2pass_encode *)

EventsOf(what) == {k \in 1..Len(encrun.events) : encrun.events[k].what = what}

\* C25: pass 2 starts only after pass 1 returned 0; when pass 1 returned
\* anything else, pass 2 never starts and the return value is that of
\* pass 1; otherwise the return value is that of pass 2, and a log file
\* is removed only after pass 2 has finished.
C25_Pass2OnlyAfterPass1Succeeded ==
    /\ Cardinality(EventsOf("pass1")) <= 1
    /\ Cardinality(EventsOf("pass2")) <= 1
    /\ \A k \in EventsOf("pass2") :
          /\ k = 2
          /\ encrun.events[1] = [what |-> "pass1", code |-> 0]
    /\ \A k \in EventsOf("remove") : \E m \in EventsOf("pass2") : m < k
    /\ encrun.pc = "done" =>
          /\ EventsOf("pass1") = {1}
          /\ IF encrun.events[1].code # 0
             THEN /\ EventsOf("pass2") = {}
                  /\ EventsOf("remove") = {}
                  /\ encrun.ret = Returned(encrun.events[1].code)
             ELSE /\ EventsOf("pass2") = {2}
                  /\ encrun.ret = Returned(encrun.events[2].code)

\* pass 1 could not be spawned and the call returned -1 with no pass 2
C25_Witness ==
    /\ encrun.pc = "done"
    /\ encrun.events = <<[what |-> "pass1", code |-> -1]>>
    /\ encrun.ret = Returned(-1)

\* both passes ran, pass 2 failed, a log was removed and 1 was returned
C25_WitnessBothPasses ==
    /\ encrun.pc = "done"
    /\ Len(encrun.events) >= 3
    /\ encrun.events[2] = [what |-> "pass2", code |-> 1]
    /\ encrun.events[3].what = "remove"
    /\ encrun.ret = Returned(1)

-----------------------------------------------------------------------------
(* compat_encoder.py: run_compat_encode *)
(* The temporary files are "avs", the script xiaoxue_compat_temp.avs,      *)
(* "sub", the subtitle copy xiaoxue_temp_sub.*, and "lwi", the index       *)
(* L-SMASH writes next to the video.                                       *)

\* how a step that creates a file may end: done, raised before the file
\* existed, or raised with the file on disk
CreationOutcomes == {"ok", "raise_before", "raise_after"}

\* the files cleanup_temp_files removes, given what exists and what the
\* caller knows as temp_subtitle
files_to_clean(existing, temp_subtitle) ==
    {f \in existing : f = "avs" \/ (f = "sub" /\ temp_subtitle # None) \/ f = "lwi"}

CompatInit ==
    /\ RenameIdle /\ QCAt("unused") /\ NotifyAt("unused") /\ EncodeAt("unused")
    /\ remux = Unused /\ convert = Unused /\ encrun = Unused /\ folders = Unused
    /\ \E dry_run \in BOOLEAN, stale \in SUBSET {"avs", "sub", "lwi"} :
          compat = [pc |-> "copy", dry_run |-> dry_run, files |-> stale,
                    created |-> {}, temp_subtitle |-> None, ret |-> NotReturned,
                    remove_failed |-> FALSE]

\* generate_avs_script up to shutil.copy2 of the subtitle into the
\* temporary directory; an exception leaves run_compat_encode's
\* temp_subtitle unassigned and is caught there
CopySubtitle ==
    /\ compat.pc = "copy"
    /\ \E outcome \in CreationOutcomes :
          compat' = [compat EXCEPT
              !.files = IF outcome = "raise_before" THEN @ ELSE @ \cup {"sub"},
              !.created = IF outcome = "raise_before" THEN @ ELSE @ \cup {"sub"},
              !.pc = IF outcome = "ok" THEN "write" ELSE "finally",
              !.ret = IF outcome = "ok" THEN @ ELSE Returned(-1)]
    /\ UNCHANGED exceptCompat

\* generate_avs_script from the copy to its return: the script is written,
\* and on return run_compat_encode assigns temp_subtitle
WriteScript ==
    /\ compat.pc = "write"
    /\ \E outcome \in CreationOutcomes :
          compat' = [compat EXCEPT
              !.files = IF outcome = "raise_before" THEN @ ELSE @ \cup {"avs"},
              !.created = IF outcome = "raise_before" THEN @ ELSE @ \cup {"avs"},
              !.temp_subtitle = IF outcome = "ok" THEN Some("sub") ELSE @,
              !.pc = IF outcome = "ok" THEN "run" ELSE "finally",
              !.ret = IF outcome = "ok" THEN @ ELSE Returned(-1)]
    /\ UNCHANGED exceptCompat

\* the command is built and printed; dry_run returns 0
DryRunReturn ==
    /\ compat.pc = "run"
    /\ compat.dry_run
    /\ compat' = [compat EXCEPT !.pc = "finally", !.ret = Returned(0)]
    /\ UNCHANGED exceptCompat

\* the encoder process: Popen may raise, which gives -1; a process that
\* ran may have written the index file
RunEncoder ==
    /\ compat.pc = "run"
    /\ ~compat.dry_run
    /\ \E code \in ReturnCodes, indexed \in BOOLEAN :
          compat' = [compat EXCEPT
              !.pc = "finally",
              !.ret = Returned(code),
              !.files = IF code # -1 /\ indexed THEN @ \cup {"lwi"} ELSE @]
    /\ UNCHANGED exceptCompat

\* the finally clause: cleanup_temp_files, each os.remove failing or not
CleanupTempFiles ==
    /\ compat.pc = "finally"
    /\ \E removed \in SUBSET files_to_clean(compat.files, compat.temp_subtitle) :
          compat' = [compat EXCEPT
              !.pc = "returned",
              !.files = @ \ removed,
              !.remove_failed = removed # files_to_clean(compat.files, compat.temp_subtitle)]
    /\ UNCHANGED exceptCompat

CompatNext == CopySubtitle \/ WriteScript \/ DryRunReturn \/ RunEncoder \/ CleanupTempFiles

-----------------
(* Claims about run_compat_encode *)

\* C26: on every exit path of run_compat_encode, the script and the
\* subtitle copy the call created are gone when it returns, provided no
\* removal failed.
C26_TempFilesGoneOnReturn ==
    (compat.pc = "returned" /\ ~compat.remove_failed) =>
        compat.created \cap compat.files \cap {"avs", "sub"} = {}

-----------------------------------------------------------------------------
(* folder_creator.py *)
(* A line is the sequence of its characters without the line end, which    *)
(* str.strip removes with the other white space.                           *)

\* str.strip()
StripBlanks(line) ==
    LET keep == {i \in 1..Len(line) : line[i] # " "}
    IN  IF keep = {} THEN <<>>
        ELSE SubSeq(line, CHOOSE i \in keep : \A j \in keep : i <= j,
                          CHOOSE i \in keep : \A j \in keep : i >= j)

\* re.sub(r"_+", "_", name)
RECURSIVE CollapseUnderscores(_)
CollapseUnderscores(name) ==
    IF Len(name) < 2 THEN name
    ELSE IF name[1] = "_" /\ name[2] = "_" THEN CollapseUnderscores(Tail(name))
    ELSE <<name[1]>> \o CollapseUnderscores(Tail(name))

Untitled == <<"untitled">>

sanitize_folder_name(line) ==
    LET name == StripUnderscores(CollapseUnderscores(Sanitize(StripBlanks(line))))
    IN  IF name = <<>> THEN Untitled ELSE name

\* the loop of read_folder_names_from_txt: sanitize each line, keep the
\* non-empty names not seen before
RECURSIVE NamesFrom(_, _)
NamesFrom(lines, names) ==
    IF lines = <<>> THEN names
    ELSE LET name == sanitize_folder_name(Head(lines))
         IN  NamesFrom(Tail(lines),
                       IF name # <<>> /\ name \notin Range(names)
                       THEN Append(names, name) ELSE names)

read_folder_names_from_txt(lines) == NamesFrom(lines, <<>>)

\* the folder name of the i-th name
FolderName(i, name, auto_number) ==
    IF auto_number THEN <<ToString(i), "_">> \o name ELSE name

FolderLines ==
    {<<>>, <<" ">>, <<"/", "_">>, <<"a">>, <<" ", "a", "/">>, <<"a", ":", "_", "b">>}

FolderTexts == UNION {[1..n -> FolderLines] : n \in 0..MaxLines}

Result(succeeded, failed, messages) ==
    [success_count |-> succeeded, fail_count |-> failed, errors |-> messages]

FoldersInit ==
    /\ RenameIdle /\ QCAt("unused") /\ NotifyAt("unused") /\ EncodeAt("unused")
    /\ remux = Unused /\ convert = Unused /\ encrun = Unused /\ compat = Unused
    /\ \E lines \in FolderTexts, auto_number \in BOOLEAN :
          folders = [pc |-> "read", lines |-> lines, auto_number |-> auto_number,
                     names |-> <<>>, i |-> 1, success_count |-> 0, fail_count |-> 0,
                     errors |-> <<>>, output_dir_made |-> FALSE, created |-> {},
                     ret |-> NotReturned]

\* batch_create_folders up to the loop: the names are read, which may
\* raise; no name returns (0, 0, []); else the output directory is made
ReadNames ==
    /\ folders.pc = "read"
    /\ \E readable \in BOOLEAN :
          LET names == read_folder_names_from_txt(folders.lines)
          IN  folders' =
                  IF ~readable
                  THEN [folders EXCEPT !.pc = "done",
                                       !.ret = Result(0, 1, <<"read failed">>)]
                  ELSE IF names = <<>>
                  THEN [folders EXCEPT !.pc = "done", !.ret = Result(0, 0, <<>>)]
                  ELSE [folders EXCEPT !.pc = "create", !.names = names,
                                       !.output_dir_made = TRUE]
    /\ UNCHANGED exceptFolders

\* one turn of the loop: os.makedirs of the folder, its failure counted
CreateFolder ==
    /\ folders.pc = "create"
    /\ folders.i <= Len(folders.names)
    /\ \E ok \in BOOLEAN :
          LET folder_name == FolderName(folders.i, folders.names[folders.i],
                                        folders.auto_number)
          IN  folders' = [folders EXCEPT
                  !.i = @ + 1,
                  !.success_count = IF ok THEN @ + 1 ELSE @,
                  !.fail_count = IF ok THEN @ ELSE @ + 1,
                  !.errors = IF ok THEN @ ELSE Append(@, folder_name),
                  !.created = IF ok THEN @ \cup {folder_name} ELSE @]
    /\ UNCHANGED exceptFolders

FoldersReturn ==
    /\ folders.pc = "create"
    /\ folders.i > Len(folders.names)
    /\ folders' = [folders EXCEPT
           !.pc = "done",
           !.ret = Result(folders.success_count, folders.fail_count, folders.errors)]
    /\ UNCHANGED exceptFolders

FoldersNext == ReadNames \/ CreateFolder \/ FoldersReturn

-----------------
(* Claims about folder_creator.py *)

\* a line of white space, illegal characters and underscores only
Blank(line) == Range(line) \subseteq {" ", "_"} \cup IllegalChars

\* C27: a line that is blank, or that sanitizes to nothing, contributes no
\* folder name; for a TXT file of such lines only, batch_create_folders
\* returns (0, 0, []) and creates no folder.
C27_BlankLinesGiveNoFolder ==
    /\ Len(folders.names)
          <= Cardinality({k \in 1..Len(folders.lines) : ~Blank(folders.lines[k])})
    /\ (folders.pc = "done" /\ folders.ret # Result(0, 1, <<"read failed">>)
          /\ \A k \in 1..Len(folders.lines) : Blank(folders.lines[k])) =>
          /\ folders.ret = Result(0, 0, <<>>)
          /\ folders.created = {}
          /\ ~folders.output_dir_made

Init == RenameInit \/ EvalInit \/ ProbeInit \/ ScanInit \/ NotifyInit \/ SendInit \/ EncodeInit
        \/ RemuxInit \/ ExecEncodeInit \/ ConvertInit \/ TwoPassInit
        \/ CompatInit \/ FoldersInit

Next == RenameNext \/ EvalNext \/ ProbeMedia \/ ScanNext \/ NotifyNext \/ SendAutoNotification \/ EncodeNext
        \/ RemuxNext \/ ExecuteEncode \/ ConvertNext \/ TwoPassNext
        \/ CompatNext \/ FoldersNext

Spec == Init /\ [][Next]_vars

SpecRename == RenameInit /\ [][RenameNext]_vars

SpecEval == EvalInit /\ [][EvalNext]_vars

SpecProbe == ProbeInit /\ [][ProbeMedia]_vars

SpecNotify == NotifyInit /\ [][NotifyNext]_vars

SpecSend == SendInit /\ [][SendAutoNotification]_vars

SpecEncode == EncodeInit /\ [][EncodeNext]_vars

SpecRemux == RemuxInit /\ [][RemuxNext]_vars

SpecFolders == FoldersInit /\ [][FoldersNext]_vars

SpecCompat == CompatInit /\ [][CompatNext]_vars

SpecTwoPass == TwoPassInit /\ [][TwoPassNext]_vars

SpecConvert == ConvertInit /\ [][ConvertNext]_vars

SpecExecEncode == ExecEncodeInit /\ [][ExecuteEncode]_vars

SpecScan == ScanInit /\ [][ScanNext]_vars

====
